---------------------------- MODULE Spec2Model ----------------------------
(***************************************************************************)
(* ChannelCollection (packages/runtime/container-runtime, channelCollection *)
(* .ts): the data store contexts of one container, their attach state       *)
(* machine, the pendingAttach bookkeeping, the alias map, and the           *)
(* notifications sent to the garbage collector.                             *)
(*                                                                          *)
(* One action per public operation or message handler.  Each action         *)
(* records what it did in `last` (operation, arguments, error thrown,       *)
(* result, references emitted, resolver calls), so that the outcome of an   *)
(* operation can be stated as a predicate of the state that follows it.     *)
(* An operation that throws keeps the assignments made before the throw.    *)
(***************************************************************************)
EXTENDS Integers, Sequences, FiniteSets, TLC

VARIABLES
    attachState,                \* parentContext.attachState (the container)
    contexts,                   \* DataStoreContexts._contexts: id -> context
    notBoundContexts,           \* DataStoreContexts.notBoundContexts
    pendingAttach,              \* Map<string, IAttachMessage>
    attachOpFiredForDataStore,  \* Set<string>
    aliasMap,                   \* Map<string, string>: alias -> internal id
    pendingAliasMap,            \* aliases with a local Alias op in flight
    dataStoresSinceLastGC,      \* string[]
    deletedNodes,               \* ids for which isDataStoreDeleted("/id") holds
    submitted,                  \* local ops handed to parentContext.submitMessage, not yet echoed
    nextUniqueId,               \* next value of generateDocumentUniqueId()
    requests,                   \* calls of request() suspended at an await
    disposeOnce,                \* Lazy<void>: was it evaluated, and how often its function ran
    gcCall,                     \* the call of the garbage collector suspended at an await
    last                        \* what the last operation did

vars == <<attachState, contexts, notBoundContexts, pendingAttach,
          attachOpFiredForDataStore, aliasMap, pendingAliasMap,
          dataStoresSinceLastGC, deletedNodes, submitted, nextUniqueId, requests,
          disposeOnce, gcCall, last>>

-----------------------------------------------------------------------------
(* Bounds of the model *)

\* data stores the container ever holds (in the table or deleted)
MaxContexts == 2
\* values generateDocumentUniqueId() hands out
MaxUniqueIds == 1
\* local ops in flight at once
MaxSubmitted == 2
\* length of dataStoresSinceLastGC before updateStateBeforeGC must run
MaxSinceGC == 1
\* the stores created before an attach summary is taken
MaxSummaryContexts == 4
\* the calls of request() suspended at one time
MaxRequests == 1
\* the stores a container holds where the ids of new stores are examined
MaxIdContexts == 4
\* values generateDocumentUniqueId() hands out where the ids are examined
MaxIdUniqueIds == 2
\* runs of the function of disposeOnce after which dispose is called no more
MaxDisposeCalls == 3
\* length of dataStoresSinceLastGC where Attach ops are processed while
\* updateStateBeforeGC is suspended
MaxSinceGCSuspended == 2

(* Inputs of the model *)

\* ids carried by Attach ops of other clients
RemoteIds == {"root"}
\* ids carried by stashed Attach ops and by Attach ops wrongly flagged local
StashedIds == {"7"}
\* alias names used by local and remote Alias ops
AliasNames == {"root", "1"}

Detached == "Detached"
Attaching == "Attaching"
Attached == "Attached"

-----------------------------------------------------------------------------
(* Pure helpers *)

\* encodeCompactIdToString(n): the short string of a number
EncodeCompactIdToString(n) == ToString(n)

\* FluidDataStoreContext.setAttachState: Detached -> Attaching -> Attached, never back
Rank(s) == CASE s = Detached -> 0 [] s = Attaching -> 1 [] s = Attached -> 2

ContextSetAttachState(cur, new) == IF Rank(new) > Rank(cur) THEN new ELSE cur

\* the attach state a context built from a snapshot (existing = true) starts in
ExistingAttachState(parent) == IF parent # Detached THEN parent ELSE Detached

\* a new context record
NewContext(state, isLocal, root) ==
    [attachState |-> state, isLocal |-> isLocal,
     isRootDataStore |-> root, inMemoryRoot |-> FALSE,
     pkg |-> <<"app", "pkg">>,
     \* the flag context.setTombstone sets
     tombstoned |-> FALSE,
     \* the flag context.dispose sets
     disposed |-> FALSE]

\* DataStoreContexts.get / has
ContextsHas(id) == id \in DOMAIN contexts

\* the data stores the container has held so far
KnownStores == DOMAIN contexts \cup deletedNodes

\* DataStoreContexts.isNotBound
IsNotBound(id) == id \in notBoundContexts

\* faulty variant: only the context table is consulted
AlreadyProcessedContextsOnly(id) == ContextsHas(id)
\* faulty variant: only the alias map is consulted
AlreadyProcessedAliasesOnly(id) == id \in DOMAIN aliasMap
\* ChannelCollection.alreadyProcessed
AlreadyProcessed(id) == id \in DOMAIN aliasMap \/ ContextsHas(id)

\* faulty variant: the garbage collector is not asked
NeverDeleted(id) == FALSE
\* ChannelCollection.checkAndLogIfDeleted: does isDataStoreDeleted("/id") hold?
CheckAndLogIfDeleted(id) == id \in deletedNodes

\* f with key k set to v (Map.set)
MapSet(f, k, v) == [x \in DOMAIN f \cup {k} |-> IF x = k THEN v ELSE f[x]]

\* f without key k (Map.delete)
MapDelete(f, k) == [x \in DOMAIN f \ {k} |-> f[x]]

EmptyMap == [x \in {} |-> ""]

\* a Lazy that has not been evaluated
NotEvaluated == [evaluated |-> FALSE, calls |-> 0]

\* no call of the garbage collector is suspended.  A suspended call holds: its
\* name; for updateStateBeforeGC the index the loop has reached, whether the store
\* there is a root, the ids examined and the references emitted so far, and the
\* length the list had when the call began; for getGCData the contexts its
\* filter kept
NoCall ==
    [call |-> "none", index |-> 0, root |-> FALSE, examined |-> <<>>,
     emitted |-> <<>>, atCall |-> 0, kept |-> {}]

\* the record every operation leaves in `last`
Did(op, id, alias, local, error, result, emitted, resolved) ==
    [op |-> op, id |-> id, alias |-> alias, local |-> local, error |-> error,
     result |-> result, emitted |-> emitted, resolved |-> resolved,
     \* the type of the message, the argument and the value returned
     type |-> "", args |-> <<>>, returned |-> <<>>,
     \* the contexts the call was delivered to, the gcNodeUpdated calls, the
     \* telemetry events, the deleteChild calls
     delivered |-> <<>>, gcNodeUpdated |-> <<>>, logged |-> <<>>, deleted |-> <<>>]

NoError == "none"

\* one GC reference handed to parentContext.addedGCOutboundReference; `applied`
\* tells whether the operation's own state effect was in place when it was emitted
Ref(from, to, applied) == [from |-> from, to |-> to, applied |-> applied]

\* route.split("/") of the route "/a/b": a route is held as its segments <<a, b>>
Split(route) == <<"">> \o route

\* faulty variant: the type is the first element of the package path
GenerateAttachMessageFirstPkg(id) ==
    [id |-> id, type |-> contexts[id].pkg[1], routes |-> <<>>]
\* the IAttachMessage of a local context (generateAttachMessage)
GenerateAttachMessage(id) ==
    [id |-> id, type |-> contexts[id].pkg[Len(contexts[id].pkg)], routes |-> <<>>]

\* the local ops in flight that are Attach ops, as a set of ids
SubmittedAttachIds ==
    {submitted[i].id : i \in {j \in 1..Len(submitted) : submitted[j].type = "attach"}}

AttachOp(msg) == [type |-> "attach", id |-> msg.id, alias |-> "", msg |-> msg]

AliasOp(internalId, alias) ==
    [type |-> "alias", id |-> internalId, alias |-> alias,
     msg |-> [id |-> internalId, type |-> "", routes |-> <<>>]]

-----------------------------------------------------------------------------
(* The state after construction *)

\* the data stores of the base snapshot the container is loaded from
BaseSnapshotStores(parent) == IF parent = Detached THEN {{}} ELSE {{}, {"9"}}

Init ==
    /\ attachState \in {Detached, Attached}
    /\ \E base \in BaseSnapshotStores(attachState) :
          contexts = [id \in base |->
                          NewContext(ExistingAttachState(attachState),
                                     attachState = Detached, FALSE)]
    /\ notBoundContexts = {}
    /\ pendingAttach = EmptyMap
    /\ attachOpFiredForDataStore = {}
    /\ aliasMap = EmptyMap
    /\ pendingAliasMap = EmptyMap
    /\ dataStoresSinceLastGC = <<>>
    /\ deletedNodes = {}
    /\ submitted = <<>>
    /\ nextUniqueId = 0
    /\ requests = {}
    /\ disposeOnce = NotEvaluated
    /\ gcCall = NoCall
    /\ last = Did("init", "", "", FALSE, NoError, FALSE, <<>>, <<>>)

-----------------------------------------------------------------------------
(* createDataStoreContext / createDetachedDataStore / createContext *)

\* what generateDocumentUniqueId() returns: the number n, or a uuid string
UniqueNumber(n) == [number |-> TRUE, n |-> n, s |-> ""]
UniqueString(n) == [number |-> FALSE, n |-> n, s |-> "uuid" \o ToString(n)]

\* faulty variant: the number of the runtime is doubled and not made odd
CreateDataStoreIdOfDoubled(uid) ==
    IF attachState = Detached
    THEN EncodeCompactIdToString(2 * Cardinality(DOMAIN contexts))
    ELSE IF uid.number THEN EncodeCompactIdToString(2 * uid.n) ELSE uid.s
\* ChannelCollection.createDataStoreId, `uid` being what generateDocumentUniqueId()
\* returns when it is called
CreateDataStoreIdOf(uid) ==
    IF attachState = Detached
    THEN EncodeCompactIdToString(2 * Cardinality(DOMAIN contexts))
    ELSE IF uid.number THEN EncodeCompactIdToString(2 * uid.n + 1) ELSE uid.s

\* createDataStoreId when the runtime hands out numbers
CreateDataStoreId == CreateDataStoreIdOf(UniqueNumber(nextUniqueId))

\* ChannelCollection.createContext, on the id createDataStoreId returns; the
\* container holds at most `max` stores and the runtime hands out `maxIds` ids
CreateContextOf(max, maxIds, uid) ==
    LET id == CreateDataStoreIdOf(uid)
        drawn == IF attachState = Detached THEN <<>> ELSE <<uid>>
    IN
    /\ Cardinality(KnownStores) < max
    /\ attachState # Detached => nextUniqueId < maxIds
    /\ nextUniqueId' = IF attachState = Detached THEN nextUniqueId ELSE nextUniqueId + 1
    /\ IF ContextsHas(id)
       THEN \* DataStoreContexts.addUnbound asserts the id is new
            /\ UNCHANGED <<contexts, notBoundContexts>>
            /\ last' = [Did("createContext", id, "", FALSE, "assert", FALSE, <<>>, <<>>)
                           EXCEPT !.args = drawn]
       ELSE /\ contexts' = MapSet(contexts, id, NewContext(Detached, TRUE, FALSE))
            /\ notBoundContexts' = notBoundContexts \cup {id}
            /\ last' = [Did("createContext", id, "", FALSE, NoError, TRUE, <<>>, <<>>)
                           EXCEPT !.args = drawn]
    /\ UNCHANGED <<attachState, pendingAttach, attachOpFiredForDataStore, aliasMap,
                   pendingAliasMap, dataStoresSinceLastGC, deletedNodes, submitted,
                   requests,
                   disposeOnce, gcCall>>

CreateContextWithin(max) ==
    CreateContextOf(max, MaxUniqueIds, UniqueNumber(nextUniqueId))

CreateContext == CreateContextWithin(MaxContexts)

-----------------------------------------------------------------------------
(* makeDataStoreLocallyVisible / submitAttachChannelOp *)

\* the context table after makeDataStoreLocallyVisible(id)
VisibleContexts(id) ==
    IF attachState # Detached
    THEN [contexts EXCEPT ![id].attachState = ContextSetAttachState(@, Attaching)]
    ELSE contexts

\* faulty variant: the message is submitted but not recorded
SubmitAttachPendingDropped(id) == pendingAttach
\* pendingAttach after submitAttachChannelOp, called only when not Detached
SubmitAttachPending(id) == MapSet(pendingAttach, id, GenerateAttachMessage(id))

VisiblePendingAttach(id) ==
    IF attachState # Detached THEN SubmitAttachPending(id) ELSE pendingAttach

VisibleSubmitted(id) ==
    IF attachState # Detached
    THEN Append(submitted, AttachOp(GenerateAttachMessage(id)))
    ELSE submitted

VisibleAttachOpFired(id) ==
    IF attachState # Detached
    THEN attachOpFiredForDataStore \cup {id}
    ELSE attachOpFiredForDataStore

MakeDataStoreLocallyVisible(id) ==
    /\ id \in notBoundContexts
    /\ ContextsHas(id)
    /\ attachState # Detached => Len(submitted) < MaxSubmitted
    /\ contexts' = VisibleContexts(id)
    /\ pendingAttach' = VisiblePendingAttach(id)
    /\ submitted' = VisibleSubmitted(id)
    /\ attachOpFiredForDataStore' = VisibleAttachOpFired(id)
    /\ notBoundContexts' = notBoundContexts \ {id}
    /\ last' = Did("makeVisible", id, "", FALSE, NoError, attachState # Detached, <<>>, <<>>)
    /\ UNCHANGED <<attachState, aliasMap, pendingAliasMap, dataStoresSinceLastGC,
                   deletedNodes, nextUniqueId,
                   requests,
                   disposeOnce, gcCall>>

-----------------------------------------------------------------------------
(* setAttachState: the container moves to Attaching, then to Attached *)

\* the attach state the container moves to next
ParentNextAttachState ==
    IF attachState = Detached THEN Attaching ELSE Attached

\* ChannelCollection.setAttachState: only the bound contexts follow
SetAttachStateContexts(new) ==
    [id \in DOMAIN contexts |->
        IF ~IsNotBound(id)
        THEN [contexts[id] EXCEPT !.attachState = ContextSetAttachState(@, new)]
        ELSE contexts[id]]

SetAttachState ==
    /\ attachState # Attached
    /\ attachState' = ParentNextAttachState
    /\ contexts' = SetAttachStateContexts(ParentNextAttachState)
    /\ last' = Did("setAttachState", ParentNextAttachState, "", FALSE, NoError, TRUE, <<>>, <<>>)
    /\ UNCHANGED <<notBoundContexts, pendingAttach, attachOpFiredForDataStore, aliasMap,
                   pendingAliasMap, dataStoresSinceLastGC, deletedNodes, submitted,
                   nextUniqueId,
                   requests,
                   disposeOnce, gcCall>>

-----------------------------------------------------------------------------
(* process(Attach): processAttachMessage *)

\* processAttachMessageGCData: one reference per outbound route of the snapshot's
\* GC data, emitted before the message takes effect
AttachMessageRefs(msg) ==
    [i \in 1..Len(msg.routes) |->
        Ref(IF msg.routes[i][1] = "/" THEN <<msg.id>> ELSE <<msg.id, msg.routes[i][1]>>,
            msg.routes[i][2], FALSE)]

\* faulty variant: any Attach op flagged local is taken as the echo
LocalAttachMatchesAlways(msg) == TRUE
\* the local branch: the id must be pending
LocalAttachMatches(msg) == msg.id \in DOMAIN pendingAttach

\* faulty variant: the entry is kept
LocalAttachKeepsPending(msg) == pendingAttach
\* the local branch: the entry is removed
LocalAttachPending(msg) == MapDelete(pendingAttach, msg.id)

\* faulty variant: the context is left in its state
LocalAttachSkipsState(msg) == contexts
\* faulty variant: the context is put back to Attaching
LocalAttachRevertsState(msg) ==
    IF ContextsHas(msg.id)
    THEN [contexts EXCEPT ![msg.id].attachState = Attaching]
    ELSE contexts
\* the local branch: the context becomes Attached
LocalAttachContexts(msg) ==
    IF ContextsHas(msg.id)
    THEN [contexts EXCEPT ![msg.id].attachState = ContextSetAttachState(@, Attached)]
    ELSE contexts

\* the remote branch: is the id a duplicate?
RemoteAttachIsDuplicate(msg) == AlreadyProcessed(msg.id)

\* the remote branch: the RemoteFluidDataStoreContext added to the table
RemoteAttachContexts(msg, root) ==
    MapSet(contexts, msg.id, NewContext(ExistingAttachState(attachState), FALSE, root))

\* processAttachMessage(message, local); `root` is the isRootDataStore attribute of
\* the snapshot of a remote store
ProcessAttachMessage(msg, local, root) ==
    /\ dataStoresSinceLastGC' = Append(dataStoresSinceLastGC, msg.id)
    /\ IF local
       THEN IF LocalAttachMatches(msg)
            THEN /\ contexts' = LocalAttachContexts(msg)
                 /\ pendingAttach' = LocalAttachPending(msg)
                 /\ last' = Did("processAttach", msg.id, "", TRUE, NoError, TRUE,
                                AttachMessageRefs(msg), <<>>)
            ELSE \* assert 0x15e
                 /\ UNCHANGED <<contexts, pendingAttach>>
                 /\ last' = Did("processAttach", msg.id, "", TRUE, "assert", FALSE,
                                AttachMessageRefs(msg), <<>>)
       ELSE IF RemoteAttachIsDuplicate(msg)
            THEN /\ UNCHANGED <<contexts, pendingAttach>>
                 /\ last' = Did("processAttach", msg.id, "", FALSE, "DataCorruptionError",
                                FALSE, AttachMessageRefs(msg), <<>>)
            ELSE /\ contexts' = RemoteAttachContexts(msg, root)
                 /\ UNCHANGED pendingAttach
                 /\ last' = Did("processAttach", msg.id, "", FALSE, NoError, TRUE,
                                AttachMessageRefs(msg), <<>>)
    /\ UNCHANGED <<attachState, notBoundContexts, attachOpFiredForDataStore, aliasMap,
                   pendingAliasMap, deletedNodes, nextUniqueId,
                   requests,
                   disposeOnce, gcCall>>

\* the Attach op another client sends for store id: a store with a user-given id
\* is a root store of an old file; the others reference store "9" from their root
RemoteAttachMessage(id) ==
    [id |-> id, type |-> "pkg",
     routes |-> IF id = "root" THEN <<>> ELSE << <<"/", <<"9">> >> >>]

RemoteIsRoot(id) == id = "root"

\* the echo of the oldest local op in flight, when it is an Attach op
ProcessAttachEcho ==
    /\ attachState = Attached
    /\ Len(submitted) > 0
    /\ Head(submitted).type = "attach"
    /\ Len(dataStoresSinceLastGC) < MaxSinceGC
    /\ ProcessAttachMessage(Head(submitted).msg, TRUE, FALSE)
    /\ submitted' = Tail(submitted)

\* an Attach op flagged local that matches no pending attach
ProcessAttachUnmatched(id) ==
    /\ attachState = Attached
    /\ id \notin DOMAIN pendingAttach
    /\ Len(dataStoresSinceLastGC) < MaxSinceGC
    /\ ProcessAttachMessage([id |-> id, type |-> "pkg", routes |-> <<>>], TRUE, FALSE)
    /\ UNCHANGED submitted

\* an Attach op of another client, the list of new stores holding fewer than
\* `maxSinceGC` ids
ProcessAttachRemoteUpTo(id, maxSinceGC) ==
    /\ attachState = Attached
    /\ Len(dataStoresSinceLastGC) < maxSinceGC
    /\ AlreadyProcessed(id) \/ Cardinality(KnownStores) < MaxContexts
    /\ ProcessAttachMessage(RemoteAttachMessage(id), FALSE, RemoteIsRoot(id))
    /\ UNCHANGED submitted

\* an Attach op of another client
ProcessAttachRemote(id) == ProcessAttachRemoteUpTo(id, MaxSinceGC)

-----------------------------------------------------------------------------
(* process(Alias): processAliasMessage / processAliasMessageCore *)

\* faulty variant: the target's context is not looked up
AliasCommitsWithoutContext(internalId, alias) ==
    /\ ~AlreadyProcessed(alias)
    /\ ~CheckAndLogIfDeleted(internalId)
\* faulty variant: a name that is taken is committed again
AliasCommitsTakenName(internalId, alias) ==
    /\ ~CheckAndLogIfDeleted(internalId)
    /\ ContextsHas(internalId)
\* does processAliasMessageCore(internalId, alias) commit?
AliasCommits(internalId, alias) ==
    /\ ~AlreadyProcessed(alias)
    /\ ~CheckAndLogIfDeleted(internalId)
    /\ ContextsHas(internalId)

\* the alias map after a commit: aliasMap.set(alias, context.id)
AliasCommitMap(internalId, alias) == MapSet(aliasMap, alias, internalId)

\* faulty variant: the context is not marked root
AliasCommitSkipsRoot(internalId) == contexts
\* the context table after a commit: context.setInMemoryRoot()
AliasCommitContexts(internalId) == [contexts EXCEPT ![internalId].inMemoryRoot = TRUE]

\* the reference from the container handle to the aliased store, emitted before
\* the alias map is written
AliasCommitRefs(internalId) == <<Ref(<<>>, <<internalId>>, FALSE)>>

\* the resolver calls of processAliasMessage
AliasResolverCalls(local, result) == IF local THEN <<result>> ELSE <<>>

\* processAliasMessage(message, resolve, local)
ProcessAliasMessage(internalId, alias, local, op) ==
    IF AliasCommits(internalId, alias)
    THEN /\ aliasMap' = AliasCommitMap(internalId, alias)
         /\ contexts' = AliasCommitContexts(internalId)
         /\ last' = Did(op, internalId, alias, local, NoError, TRUE,
                        AliasCommitRefs(internalId), AliasResolverCalls(local, TRUE))
    ELSE /\ aliasMap' = aliasMap
         /\ contexts' = contexts
         /\ last' = Did(op, internalId, alias, local, NoError, FALSE,
                        <<>>, AliasResolverCalls(local, FALSE))

\* the requests waiting for the promise of `alias` find it settled
AliasSettled(alias) ==
    {IF r.stage = "alias" /\ r.name = alias THEN [r EXCEPT !.stage = "settled"] ELSE r :
        r \in requests}

\* the echo of the oldest local op in flight, when it is an Alias op
ProcessAliasEcho ==
    /\ attachState = Attached
    /\ Len(submitted) > 0
    /\ Head(submitted).type = "alias"
    /\ ProcessAliasMessage(Head(submitted).id, Head(submitted).alias, TRUE, "processAlias")
    /\ submitted' = Tail(submitted)
    /\ pendingAliasMap' = MapDelete(pendingAliasMap, Head(submitted).alias)
    /\ requests' = AliasSettled(Head(submitted).alias)
    /\ UNCHANGED <<attachState, notBoundContexts, pendingAttach,
                   attachOpFiredForDataStore, dataStoresSinceLastGC, deletedNodes,
                   nextUniqueId,
                   disposeOnce, gcCall>>

\* the internal ids an Alias op of another client may name
RemoteAliasTargets == DOMAIN contexts \cup deletedNodes \cup {"7"}

\* an Alias op of another client
ProcessAliasRemote(internalId, alias) ==
    /\ attachState = Attached
    /\ ProcessAliasMessage(internalId, alias, FALSE, "processAlias")
    /\ UNCHANGED <<attachState, notBoundContexts, pendingAttach,
                   attachOpFiredForDataStore, pendingAliasMap, dataStoresSinceLastGC,
                   deletedNodes, submitted, nextUniqueId,
                   requests,
                   disposeOnce, gcCall>>

-----------------------------------------------------------------------------
(* alias(internalId, alias): the data store's trySetAlias *)

\* the stores with a local Alias op in flight
AliasingStores == {pendingAliasMap[a] : a \in DOMAIN pendingAliasMap}

\* in a container that is not Detached: make the store visible, reserve the alias,
\* submit the Alias op with the resolver as its localOpMetadata
SubmitAlias(id, alias) ==
    /\ attachState # Detached
    /\ ContextsHas(id)
    /\ alias \notin DOMAIN pendingAliasMap
    /\ id \notin AliasingStores
    /\ ~contexts[id].inMemoryRoot
    /\ Len(submitted) + (IF IsNotBound(id) THEN 2 ELSE 1) <= MaxSubmitted
    /\ contexts' = IF IsNotBound(id) THEN VisibleContexts(id) ELSE contexts
    /\ pendingAttach' = IF IsNotBound(id) THEN VisiblePendingAttach(id) ELSE pendingAttach
    /\ attachOpFiredForDataStore' =
           IF IsNotBound(id) THEN VisibleAttachOpFired(id) ELSE attachOpFiredForDataStore
    /\ notBoundContexts' = notBoundContexts \ {id}
    /\ submitted' = Append(IF IsNotBound(id) THEN VisibleSubmitted(id) ELSE submitted,
                           AliasOp(id, alias))
    /\ pendingAliasMap' = MapSet(pendingAliasMap, alias, id)
    /\ last' = Did("submitAlias", id, alias, TRUE, NoError, TRUE, <<>>, <<>>)
    /\ UNCHANGED <<attachState, aliasMap, dataStoresSinceLastGC, deletedNodes,
                   nextUniqueId,
                   requests,
                   disposeOnce, gcCall>>

\* in a Detached container: make the store visible and call processAliasMessageCore
AliasDetached(id, alias) ==
    /\ attachState = Detached
    /\ ContextsHas(id)
    /\ ~contexts[id].inMemoryRoot
    /\ notBoundContexts' = notBoundContexts \ {id}
    /\ ProcessAliasMessage(id, alias, FALSE, "processAliasMessageCore")
    /\ UNCHANGED <<attachState, pendingAttach, attachOpFiredForDataStore,
                   pendingAliasMap, dataStoresSinceLastGC, deletedNodes, submitted,
                   nextUniqueId,
                   requests,
                   disposeOnce, gcCall>>

-----------------------------------------------------------------------------
(* applyStashedOp(Attach): applyStashedAttachOp *)

\* faulty variant: the stashed op is not recorded as pending
StashedPendingDropped(msg) == pendingAttach
\* pendingAttach after a stashed Attach op is applied
StashedPending(msg) ==
    IF attachState # Detached THEN MapSet(pendingAttach, msg.id, msg) ELSE pendingAttach

ApplyStashedAttachOp(id) ==
    LET msg == [id |-> id, type |-> "pkg", routes |-> <<>>] IN
    /\ id \notin SubmittedAttachIds
    /\ ContextsHas(id) \/ Cardinality(KnownStores) < MaxContexts
    /\ attachState # Detached => Len(submitted) < MaxSubmitted
    /\ IF ContextsHas(id)
       THEN \* DataStoreContexts.addBoundOrRemoted asserts the id is new
            /\ UNCHANGED <<contexts, pendingAttach, submitted>>
            /\ last' = Did("applyStashedAttach", id, "", TRUE, "assert", FALSE, <<>>, <<>>)
       ELSE /\ contexts' = MapSet(contexts, id,
                                  NewContext(ExistingAttachState(attachState), TRUE, FALSE))
            /\ pendingAttach' = StashedPending(msg)
            \* the stashed op is resubmitted and echoed like any local op
            /\ submitted' = IF attachState # Detached
                            THEN Append(submitted, AttachOp(msg)) ELSE submitted
            /\ last' = Did("applyStashedAttach", id, "", TRUE, NoError, TRUE, <<>>, <<>>)
    /\ UNCHANGED <<attachState, notBoundContexts, attachOpFiredForDataStore, aliasMap,
                   pendingAliasMap, dataStoresSinceLastGC, deletedNodes, nextUniqueId,
                   requests,
                   disposeOnce, gcCall>>

-----------------------------------------------------------------------------
(* reSubmit(Attach | Alias): the op is handed to submitMessage again *)

ReSubmit(i) ==
    /\ attachState # Detached
    /\ i \in 1..Len(submitted)
    /\ submitted' = [submitted EXCEPT ![i] = submitted[i]]
    /\ last' = Did("reSubmit", "", "", TRUE, NoError, TRUE, <<>>, <<>>)
    /\ UNCHANGED <<attachState, contexts, notBoundContexts, pendingAttach,
                   attachOpFiredForDataStore, aliasMap, pendingAliasMap,
                   dataStoresSinceLastGC, deletedNodes, nextUniqueId,
                   requests,
                   disposeOnce, gcCall>>

-----------------------------------------------------------------------------
(* The contents of a FluidDataStoreOp: JSON values *)

Str(s) == [t |-> "str", s |-> s, e |-> <<>>]
Null == [t |-> "null", s |-> "", e |-> <<>>]
Undefined == [t |-> "undefined", s |-> "", e |-> <<>>]
\* an object (or an array, its indices as keys) as the list Object.entries returns
Obj(entries) == [t |-> "obj", s |-> "", e |-> entries]
Prop(k, v) == [k |-> k, v |-> v]

HasProp(value, key) == \E i \in 1..Len(value.e) : value.e[i].k = key
GetProp(value, key) ==
    value.e[CHOOSE i \in 1..Len(value.e) : value.e[i].k = key].v

\* isSerializedHandle: an object {type: "__fluid_handle__", url: string}
IsSerializedHandle(value) ==
    /\ value.t = "obj"
    /\ HasProp(value, "type")
    /\ GetProp(value, "type") = Str("__fluid_handle__")
    /\ HasProp(value, "url")
    /\ GetProp(value, "url").t = "str"

\* the string Array.prototype.join makes of an element
JoinString(value) ==
    CASE value.t = "str" -> value.s
      [] value.t = "obj" -> "[object Object]"
      [] OTHER -> ""

\* a serialized handle to `url`
Handle(url) == Obj(<<Prop("type", Str("__fluid_handle__")), Prop("url", Str(url))>>)

\* values met inside op contents: plain values, handles, and objects that are not
\* handles (another type, no url)
Leaves ==
    {Str("x"), Null, Handle("/2/dds1"), Handle("/3"),
     Obj(<<Prop("type", Str("blob")), Prop("url", Str("/4"))>>),
     Obj(<<Prop("type", Str("__fluid_handle__"))>>)}

\* a channel op's inner contents: a value, an object with its own address
\* property, or an array of two values
Inner ==
    Leaves
    \cup {Obj(<<Prop("address", Str("inner")), Prop("value", l)>>) : l \in Leaves}
    \cup {Obj(<<Prop("0", l[1]), Prop("1", l[2])>>) : l \in Leaves \X Leaves}

\* op contents: the channel envelope {address, contents} in either key order, an
\* object without address, and contents that are themselves a handle or no object
Payloads ==
    {Obj(<<Prop("address", Str("dds0")), Prop("contents", i)>>) : i \in Inner}
    \cup {Obj(<<Prop("contents", i), Prop("address", Str("dds0"))>>) : i \in Inner}
    \cup {Obj(<<Prop("contents", i)>>) : i \in Inner}
    \cup {Handle("/2/dds1"), Str("x"), Null}

\* the op contents used where the contents are not what is examined
SomePayloads ==
    {Obj(<<Prop("address", Str("dds0")),
           Prop("contents", Obj(<<Prop("value", Handle("/2/dds1"))>>))>>)}

\* faulty variant: the DDS address is left out of the path
FromPathOfStore(address, ddsAddress) == "/" \o address
\* ["", address, ddsAddress].join("/")
FromPath(address, ddsAddress) == "/" \o address \o "/" \o JoinString(ddsAddress)

\* faulty variant: nothing is looked at
FindsNothing(obj, acc) == acc

\* recursivelyFindHandles, with outboundPaths and ddsAddress passed along in acc
RECURSIVE RecursivelyFindHandles(_, _), FindHandlesInEntries(_, _)
FindHandlesInEntries(entries, acc) ==
    IF entries = <<>> THEN acc
    ELSE LET key == Head(entries).k
             value == Head(entries).v
             pushed == IF IsSerializedHandle(value)
                       THEN [acc EXCEPT !.outboundPaths =
                                            Append(@, GetProp(value, "url").s)]
                       ELSE acc
             addressed == IF key = "address" /\ pushed.ddsAddress = Undefined
                          THEN [pushed EXCEPT !.ddsAddress = value]
                          ELSE pushed
         IN  FindHandlesInEntries(Tail(entries),
                                  RecursivelyFindHandles(value, addressed))

RecursivelyFindHandles(obj, acc) ==
    IF obj.t = "obj" THEN FindHandlesInEntries(obj.e, acc) ELSE acc

\* detectOutboundReferences: the calls of addedOutboundReference, in order
DetectOutboundReferences(address, contents) ==
    LET acc == RecursivelyFindHandles(contents,
                   [outboundPaths |-> <<>>, ddsAddress |-> Undefined])
    IN  [i \in 1..Len(acc.outboundPaths) |->
            Ref(FromPath(address, acc.ddsAddress), acc.outboundPaths[i], TRUE)]

-----------------------------------------------------------------------------
(* process(FluidDataStoreOp): processChannelOp, then detectOutboundReferences *)

\* the addresses a FluidDataStoreOp or a signal can carry: a store with a context,
\* a deleted store, a store this client does not know
ChannelAddresses == DOMAIN contexts \cup deletedNodes \cup {"8"}

\* faulty variant: a missing context is not an error
ChannelOpNeverFails(address) == NoError
\* the error processChannelOp throws
ChannelOpError(address) ==
    IF ~CheckAndLogIfDeleted(address) /\ ~ContextsHas(address)
    THEN "DataProcessingError" ELSE NoError

\* is the op handed to the context of `address`?
ChannelOpDelivered(address) ==
    ~CheckAndLogIfDeleted(address) /\ ChannelOpError(address) = NoError

\* detect: the config flag is not true and the callback is supplied
ProcessChannelOp(address, contents, detect) ==
    LET error == ChannelOpError(address)
        delivered == ChannelOpDelivered(address)
        refs == IF error = NoError /\ detect
                THEN DetectOutboundReferences(address, contents) ELSE <<>>
    IN
    /\ attachState = Attached
    /\ last' = [Did("processOp", address, "", FALSE, error, delivered, refs, <<>>)
                   EXCEPT !.type = "op",
                          !.args = [contents |-> contents, detect |-> detect],
                          !.delivered = IF delivered THEN <<address>> ELSE <<>>,
                          !.gcNodeUpdated = IF delivered THEN <<"/" \o address>> ELSE <<>>,
                          !.logged = IF CheckAndLogIfDeleted(address)
                                     THEN <<"GC_Deleted_DataStore_Changed">> ELSE <<>>]
    /\ UNCHANGED <<attachState, contexts, notBoundContexts, pendingAttach,
                   attachOpFiredForDataStore, aliasMap, pendingAliasMap,
                   dataStoresSinceLastGC, deletedNodes, submitted, nextUniqueId,
                   requests,
                   disposeOnce, gcCall>>

-----------------------------------------------------------------------------
(* processSignal *)

\* the error processSignal ends with: assert 0x163 for a local signal to a store
\* that has no context
SignalError(address, local) ==
    IF ~CheckAndLogIfDeleted(address) /\ ~ContextsHas(address) /\ local
    THEN "assert" ELSE NoError

SignalDelivered(address) == ~CheckAndLogIfDeleted(address) /\ ContextsHas(address)

SignalLogged(address) ==
    IF CheckAndLogIfDeleted(address) THEN <<"GC_Deleted_DataStore_Changed">>
    ELSE IF ~ContextsHas(address) THEN <<"SignalFluidDataStoreNotFound">>
    ELSE <<>>

ProcessSignal(address, local) ==
    LET error == SignalError(address, local) IN
    /\ attachState = Attached
    /\ last' = [Did("processSignal", address, "", local, error,
                    SignalDelivered(address), <<>>, <<>>)
                   EXCEPT !.type = "signal",
                          !.delivered = IF SignalDelivered(address)
                                        THEN <<address>> ELSE <<>>,
                          !.logged = IF error = NoError
                                     THEN SignalLogged(address) ELSE <<>>]
    /\ UNCHANGED <<attachState, contexts, notBoundContexts, pendingAttach,
                   attachOpFiredForDataStore, aliasMap, pendingAliasMap,
                   dataStoresSinceLastGC, deletedNodes, submitted, nextUniqueId,
                   requests,
                   disposeOnce, gcCall>>

-----------------------------------------------------------------------------
(* rollback *)

\* rollback of the op submitted last, an Attach or an Alias op: assert 0x8e8 fails
\* before anything is read or written
RollbackSubmitted ==
    LET op == submitted[Len(submitted)] IN
    /\ attachState # Detached
    /\ Len(submitted) > 0
    /\ last' = [Did("rollback", op.id, op.alias, TRUE, "assert", FALSE, <<>>, <<>>)
                   EXCEPT !.type = op.type]
    /\ UNCHANGED <<attachState, contexts, notBoundContexts, pendingAttach,
                   attachOpFiredForDataStore, aliasMap, pendingAliasMap,
                   dataStoresSinceLastGC, deletedNodes, submitted, nextUniqueId,
                   requests,
                   disposeOnce, gcCall>>

\* the error rollback(FluidDataStoreOp) ends with
RollbackChannelOpError(address) ==
    IF CheckAndLogIfDeleted(address) THEN "DataCorruptionError"
    ELSE IF ~ContextsHas(address) THEN "assert"
    ELSE NoError

\* rollback of a FluidDataStoreOp addressed to `address`
RollbackChannelOp(address) ==
    LET error == RollbackChannelOpError(address) IN
    /\ attachState # Detached
    /\ last' = [Did("rollback", address, "", TRUE, error, error = NoError, <<>>, <<>>)
                   EXCEPT !.type = "op",
                          !.delivered = IF error = NoError THEN <<address>> ELSE <<>>,
                          !.logged = IF CheckAndLogIfDeleted(address)
                                     THEN <<"GC_Deleted_DataStore_Changed">> ELSE <<>>]
    /\ UNCHANGED <<attachState, contexts, notBoundContexts, pendingAttach,
                   attachOpFiredForDataStore, aliasMap, pendingAliasMap,
                   dataStoresSinceLastGC, deletedNodes, submitted, nextUniqueId,
                   requests,
                   disposeOnce, gcCall>>

-----------------------------------------------------------------------------
(* deleteSweepReadyNodes / deleteChild *)

\* faulty variant: the store of a sub-path is looked up too
SweepIdsOfEveryRoute(routes) == {Split(routes[i])[2] : i \in 1..Len(routes)}
\* the ids deleteSweepReadyNodes looks up: routes of exactly one segment
SweepIds(routes) ==
    {Split(routes[i])[2] : i \in {j \in 1..Len(routes) : ~(Len(Split(routes[j])) > 2)}}

\* the context table after deleteChild of every id found
SweepContexts(routes) ==
    [id \in DOMAIN contexts \ SweepIds(routes) |-> contexts[id]]

\* the ids the garbage collector may find sweep ready: stores it has seen in GC
\* data (Attached, no local attach in flight) and ids it deleted before
SweepReadyIds ==
    {id \in DOMAIN contexts :
        contexts[id].attachState = Attached /\ id \notin DOMAIN pendingAttach}
    \cup deletedNodes

\* the route lists built from them: a store, a store and an object in it, or the
\* object alone
SweepReadyRoutes ==
    UNION {{<< <<id>> >>, << <<id>>, <<id, "dds">> >>, << <<id, "dds">> >>} :
              id \in SweepReadyIds}

\* route lists the garbage collector would not build: a store twice, a store this
\* client never knew
SweepOddRoutes ==
    {<< <<id>>, <<id>> >> : id \in SweepReadyIds}
    \cup {<< <<"8">> >>, << <<"8", "dds">>, <<"8">> >>}

\* the deleteChild calls of deleteSweepReadyNodes, in order, `ids` being the ids
\* that have a context when the loop reaches the route
RECURSIVE SweepDeleted(_, _)
SweepDeleted(routes, ids) ==
    IF routes = <<>> THEN <<>>
    ELSE LET pathParts == Split(Head(routes))
             dataStoreId == pathParts[2]
         IN  IF Len(pathParts) > 2 \/ dataStoreId \notin ids
             THEN SweepDeleted(Tail(routes), ids)
             ELSE <<dataStoreId>> \o SweepDeleted(Tail(routes), ids \ {dataStoreId})

\* the DeletedDataStoreNotFound events, in order, with their category
RECURSIVE SweepLogged(_, _)
SweepLogged(routes, ids) ==
    IF routes = <<>> THEN <<>>
    ELSE LET pathParts == Split(Head(routes))
             dataStoreId == pathParts[2]
         IN  IF Len(pathParts) > 2 THEN SweepLogged(Tail(routes), ids)
             ELSE IF dataStoreId \in ids
             THEN SweepLogged(Tail(routes), ids \ {dataStoreId})
             ELSE <<IF CheckAndLogIfDeleted(dataStoreId) THEN "generic" ELSE "error">>
                  \o SweepLogged(Tail(routes), ids)

\* faulty variant: only the routes of the stores that had a context are returned
SweepReturnedFound(routes) ==
    SelectSeq(routes, LAMBDA r : Split(r)[2] \in DOMAIN contexts)
\* the value returned: Array.from(sweepReadyDataStoreRoutes)
SweepReturned(routes) == routes

DeleteSweepReadyNodes(routes) ==
    /\ attachState = Attached
    /\ contexts' = SweepContexts(routes)
    /\ notBoundContexts' = notBoundContexts \ SweepIds(routes)
    \* the garbage collector records the routes returned as deleted
    /\ deletedNodes' = deletedNodes \cup SweepIds(SweepReturned(routes))
    /\ last' = [Did("deleteSweepReadyNodes", "", "", FALSE, NoError, TRUE, <<>>, <<>>)
                   EXCEPT !.args = routes,
                          !.returned = SweepReturned(routes),
                          !.deleted = SweepDeleted(routes, DOMAIN contexts),
                          !.logged = SweepLogged(routes, DOMAIN contexts)]
    /\ UNCHANGED <<attachState, pendingAttach, attachOpFiredForDataStore, aliasMap,
                   pendingAliasMap, dataStoresSinceLastGC, submitted, nextUniqueId,
                   requests,
                   disposeOnce, gcCall>>

-----------------------------------------------------------------------------
(* updateStateBeforeGC *)

\* context.isRoot()
IsRoot(id) == contexts[id].inMemoryRoot \/ contexts[id].isRootDataStore

\* faulty variant: a reference for every store of the list, root or not
NewStoreRefs(ids) == [i \in 1..Len(ids) |-> Ref(<<>>, <<ids[i]>>, TRUE)]
\* the references to the new root stores, in the order of the list
RECURSIVE NewRootRefs(_)
NewRootRefs(ids) ==
    IF ids = <<>> THEN <<>>
    ELSE (IF IsRoot(Head(ids)) THEN <<Ref(<<>>, <<Head(ids)>>, TRUE)>> ELSE <<>>)
         \o NewRootRefs(Tail(ids))

UpdateStateBeforeGC ==
    /\ attachState = Attached
    /\ Len(dataStoresSinceLastGC) > 0
    /\ IF \E i \in 1..Len(dataStoresSinceLastGC) : ~ContextsHas(dataStoresSinceLastGC[i])
       THEN \* assert 0x2b6: the list is left as it is
            /\ UNCHANGED dataStoresSinceLastGC
            /\ last' = Did("updateStateBeforeGC", "", "", FALSE, "assert", FALSE, <<>>, <<>>)
       ELSE /\ dataStoresSinceLastGC' = <<>>
            /\ last' = Did("updateStateBeforeGC", "", "", FALSE, NoError, TRUE,
                           NewRootRefs(dataStoresSinceLastGC), <<>>)
    /\ UNCHANGED <<attachState, contexts, notBoundContexts, pendingAttach,
                   attachOpFiredForDataStore, aliasMap, pendingAliasMap, deletedNodes,
                   submitted, nextUniqueId,
                   requests,
                   disposeOnce, gcCall>>

-----------------------------------------------------------------------------
(* updateStateBeforeGC, suspended at `await context.isRoot()` *)

\* faulty variant: the loop ends with the ids the list held when the call began
UpdateHasNextAtCall(call, index) == index <= call.atCall
\* the iterator of the for..of loop: is there an id at `index` in the list as it
\* is now?
UpdateHasNext(call, index) == index <= Len(dataStoresSinceLastGC)

\* the loop from `index` on, up to its next await, its end or its assertion;
\* `call` holds what the call has examined and emitted so far
UpdateStateFrom(call, index) ==
    IF ~UpdateHasNext(call, index)
    THEN /\ dataStoresSinceLastGC' = <<>>
         /\ gcCall' = NoCall
         /\ last' = [Did("updateStateBeforeGC", "", "", FALSE, NoError, TRUE,
                         call.emitted, <<>>)
                        EXCEPT !.delivered = call.examined, !.args = <<call.atCall>>]
    ELSE IF ~ContextsHas(dataStoresSinceLastGC[index])
    THEN \* assert 0x2b6: the list is left as it is
         /\ UNCHANGED dataStoresSinceLastGC
         /\ gcCall' = NoCall
         /\ last' = [Did("updateStateBeforeGC", dataStoresSinceLastGC[index], "", FALSE,
                         "assert", FALSE, call.emitted, <<>>)
                        EXCEPT !.delivered = call.examined, !.args = <<call.atCall>>]
    ELSE /\ UNCHANGED dataStoresSinceLastGC
         /\ gcCall' = [call EXCEPT !.call = "updateStateBeforeGC",
                                   !.index = index,
                                   !.root = IsRoot(dataStoresSinceLastGC[index])]
         /\ last' = [Did("awaitIsRoot", dataStoresSinceLastGC[index], "", FALSE,
                         NoError, FALSE, <<>>, <<>>)
                        EXCEPT !.args = <<call.atCall>>]

\* updateStateBeforeGC is called: the loop runs to its first await
UpdateStateBeforeGCCalled ==
    /\ attachState = Attached
    /\ gcCall.call = "none"
    /\ UpdateStateFrom([NoCall EXCEPT !.atCall = Len(dataStoresSinceLastGC)], 1)
    /\ UNCHANGED <<attachState, contexts, notBoundContexts, pendingAttach,
                   attachOpFiredForDataStore, aliasMap, pendingAliasMap, deletedNodes,
                   submitted, nextUniqueId, requests, disposeOnce>>

\* isRoot() has answered: the reference of a root store is emitted and the loop
\* goes on to its next await
UpdateStateBeforeGCResumed ==
    LET id == dataStoresSinceLastGC[gcCall.index]
        ref == IF gcCall.root THEN <<Ref(<<>>, <<id>>, TRUE)>> ELSE <<>>
    IN
    /\ gcCall.call = "updateStateBeforeGC"
    /\ UpdateStateFrom([gcCall EXCEPT !.examined = Append(@, id),
                                      !.emitted = @ \o ref],
                       gcCall.index + 1)
    /\ UNCHANGED <<attachState, contexts, notBoundContexts, pendingAttach,
                   attachOpFiredForDataStore, aliasMap, pendingAliasMap, deletedNodes,
                   submitted, nextUniqueId, requests, disposeOnce>>

-----------------------------------------------------------------------------
(* getGCData / summarize / updateTombstonedRoutes *)

\* the elements of a set in some fixed order (the iteration order of a Map)
RECURSIVE SetToSeq(_)
SetToSeq(S) ==
    IF S = {} THEN <<>>
    ELSE LET x == CHOOSE y \in S : TRUE IN <<x>> \o SetToSeq(S \ {x})

\* the GC nodes a context reports for itself: the store ("/") and one object in it
ContextGCNodes(id) == {<<>>, <<"dds">>}

\* GCDataBuilder.prefixAndAddNodes: every node id prefixed with "/prefixId"
PrefixAndAddNodes(prefixId, nodes) ==
    {[id |-> <<prefixId>> \o n, outbound |-> {}] : n \in nodes}

\* the filter of getGCData throws when it meets a context in state Attaching
GCDataFails == \E id \in DOMAIN contexts : contexts[id].attachState = Attaching

\* faulty variant: every context that is not Attaching is kept
GCDataContextsNotAttaching == {id \in DOMAIN contexts : contexts[id].attachState # Attaching}
\* the contexts the filter of getGCData keeps
GCDataContexts == {id \in DOMAIN contexts : contexts[id].attachState = Attached}

\* getOutboundRoutes: the routes of the root data stores
GetOutboundRoutes == {<<id>> : id \in {x \in DOMAIN contexts : IsRoot(x)}}

\* the nodes of the GC data: those of the contexts kept, and the node "/"
GCDataNodes ==
    UNION {PrefixAndAddNodes(id, ContextGCNodes(id)) : id \in GCDataContexts}
    \cup {[id |-> <<>>, outbound |-> GetOutboundRoutes]}

GetGCData ==
    /\ last' = IF GCDataFails
               THEN Did("getGCData", "", "", FALSE, "DataProcessingError", FALSE, <<>>, <<>>)
               ELSE [Did("getGCData", "", "", FALSE, NoError, TRUE, <<>>, <<>>)
                        EXCEPT !.returned = GCDataNodes]
    /\ UNCHANGED <<attachState, contexts, notBoundContexts, pendingAttach,
                   attachOpFiredForDataStore, aliasMap, pendingAliasMap,
                   dataStoresSinceLastGC, deletedNodes, submitted, nextUniqueId,
                   requests,
                   disposeOnce, gcCall>>

\* getGCData is called: the filter runs over the contexts, and the call waits for
\* the GC data of the contexts kept
GetGCDataCalled ==
    /\ gcCall.call = "none"
    /\ IF GCDataFails
       THEN /\ UNCHANGED gcCall
            /\ last' = Did("getGCData", "", "", FALSE, "DataProcessingError", FALSE,
                           <<>>, <<>>)
       ELSE /\ gcCall' = [NoCall EXCEPT !.call = "getGCData", !.kept = GCDataContexts]
            /\ last' = Did("awaitGCData", "", "", FALSE, NoError, FALSE, <<>>, <<>>)
    /\ UNCHANGED <<attachState, contexts, notBoundContexts, pendingAttach,
                   attachOpFiredForDataStore, aliasMap, pendingAliasMap,
                   dataStoresSinceLastGC, deletedNodes, submitted, nextUniqueId,
                   requests, disposeOnce>>

\* the GC data of the contexts kept has arrived: getOutboundRoutes runs over the
\* contexts the table holds now, and the GC data is returned
GetGCDataResumed ==
    /\ gcCall.call = "getGCData"
    /\ gcCall' = NoCall
    /\ last' = [Did("getGCData", "", "", FALSE, NoError, TRUE, <<>>, <<>>)
                   EXCEPT !.returned =
                       UNION {PrefixAndAddNodes(id, ContextGCNodes(id)) : id \in gcCall.kept}
                       \cup {[id |-> <<>>, outbound |-> GetOutboundRoutes]}]
    /\ UNCHANGED <<attachState, contexts, notBoundContexts, pendingAttach,
                   attachOpFiredForDataStore, aliasMap, pendingAliasMap,
                   dataStoresSinceLastGC, deletedNodes, submitted, nextUniqueId,
                   requests, disposeOnce>>

\* the filter of summarize throws when it meets a context in state Attaching
SummarizeFails == \E id \in DOMAIN contexts : contexts[id].attachState = Attaching

\* faulty variant: every context that is not Attaching is kept
SummarizeContextsNotAttaching ==
    {id \in DOMAIN contexts : contexts[id].attachState # Attaching}
\* the contexts the filter of summarize keeps
SummarizeContexts == {id \in DOMAIN contexts : contexts[id].attachState = Attached}

\* the keys of the addWithStats calls of summarize, in order
SummarizeKeys == SetToSeq(SummarizeContexts)

Summarize ==
    /\ last' = IF SummarizeFails
               THEN Did("summarize", "", "", FALSE, "DataProcessingError", FALSE, <<>>, <<>>)
               ELSE [Did("summarize", "", "", FALSE, NoError, TRUE, <<>>, <<>>)
                        EXCEPT !.returned = SummarizeKeys]
    /\ UNCHANGED <<attachState, contexts, notBoundContexts, pendingAttach,
                   attachOpFiredForDataStore, aliasMap, pendingAliasMap,
                   dataStoresSinceLastGC, deletedNodes, submitted, nextUniqueId,
                   requests,
                   disposeOnce, gcCall>>

\* faulty variant: the store of a sub-path is tombstoned too
TombstonedIdsOfEveryRoute(routes) == {Split(routes[i])[2] : i \in 1..Len(routes)}
\* the ids updateTombstonedRoutes collects: routes of exactly one segment
TombstonedIds(routes) ==
    {Split(routes[i])[2] : i \in {j \in 1..Len(routes) : ~(Len(Split(routes[j])) > 2)}}

\* faulty variant: the flag is only ever set
TombstoneContextsSetOnly(routes) ==
    [id \in DOMAIN contexts |->
        [contexts[id] EXCEPT !.tombstoned = @ \/ id \in TombstonedIds(routes)]]
\* context.setTombstone(tombstonedDataStoresSet.has(contextId)) for every context
TombstoneContexts(routes) ==
    [id \in DOMAIN contexts |->
        [contexts[id] EXCEPT !.tombstoned = id \in TombstonedIds(routes)]]

\* the route lists handed to updateTombstonedRoutes: stores with a context, objects
\* in them, pairs of both, and a store without a context
TombstoneRoutes ==
    {<<>>, << <<"8">> >>, << <<"8", "dds">> >>}
    \cup UNION {{<< <<id>> >>, << <<id, "dds">> >>, << <<id, "dds">>, <<id>> >>} :
                   id \in DOMAIN contexts}
    \cup {<< <<a>>, <<b>> >> : a \in DOMAIN contexts, b \in DOMAIN contexts \cup {"8"}}
    \cup {<< <<a>>, <<b, "dds">> >> : a \in DOMAIN contexts, b \in DOMAIN contexts}

UpdateTombstonedRoutes(routes) ==
    /\ IF \E id \in TombstonedIds(routes) : ~ContextsHas(id)
       THEN \* assert 0x510, before any flag is written
            /\ UNCHANGED contexts
            /\ last' = [Did("updateTombstonedRoutes", "", "", FALSE, "assert", FALSE,
                            <<>>, <<>>) EXCEPT !.args = routes]
       ELSE /\ contexts' = TombstoneContexts(routes)
            /\ last' = [Did("updateTombstonedRoutes", "", "", FALSE, NoError, TRUE,
                            <<>>, <<>>) EXCEPT !.args = routes]
    /\ UNCHANGED <<attachState, notBoundContexts, pendingAttach,
                   attachOpFiredForDataStore, aliasMap, pendingAliasMap,
                   dataStoresSinceLastGC, deletedNodes, submitted, nextUniqueId,
                   requests,
                   disposeOnce, gcCall>>

-----------------------------------------------------------------------------
(* getAttachSummary *)

\* makeDataStoreLocallyVisible(id), on the state `st` a summary in progress has
\* reached: the store is bound and, unless the container is Detached, its attach
\* op is submitted
BindDuringSummary(st, id) ==
    IF attachState # Detached
    THEN [st EXCEPT !.ctx[id].attachState = ContextSetAttachState(@, Attaching),
                    !.pend = MapSet(@, id, GenerateAttachMessage(id)),
                    !.subm = Append(@, AttachOp(GenerateAttachMessage(id))),
                    !.fired = @ \cup {id},
                    !.nb = @ \ {id}]
    ELSE [st EXCEPT !.nb = @ \ {id}]

RECURSIVE BindEachDuringSummary(_, _)
BindEachDuringSummary(st, ids) ==
    IF ids = <<>> THEN st
    ELSE BindEachDuringSummary(
             IF Head(ids) \in st.nb THEN BindDuringSummary(st, Head(ids)) ELSE st,
             Tail(ids))

\* the map callback of one pass: getAttachData of a store binds the stores its
\* handles refer to (refs[key]), then the store is added to the tree
RECURSIVE SummarizeEach(_, _, _)
SummarizeEach(st, keys, refs) ==
    IF keys = <<>> THEN st
    ELSE LET bound == BindEachDuringSummary(st, SetToSeq(refs[Head(keys)] \cap st.nb))
         IN  SummarizeEach([bound EXCEPT !.tree = @ \cup {Head(keys)}], Tail(keys), refs)

\* faulty variant: a store that is in the tree already is kept again
AttachSummaryFilterBound(st) ==
    {key \in DOMAIN st.ctx : ~(key \in st.nb \/ key \in st.fired)}
\* the contexts the filter of a pass keeps, evaluated before the pass summarizes any
AttachSummaryFilter(st) ==
    {key \in DOMAIN st.ctx : ~(key \in st.nb \/ key \in st.tree \/ key \in st.fired)}

\* one pass of the do-while loop; `passes` lists what each pass summarized
AttachSummaryPass(st, refs) ==
    SummarizeEach([st EXCEPT !.passes = Append(@, AttachSummaryFilter(st))],
                  SetToSeq(AttachSummaryFilter(st)), refs)

\* faulty variant: one pass only
AttachSummaryOnePass(st, refs) == AttachSummaryPass(st, refs)
\* the loop: passes are taken until one leaves notBoundLength() as it found it
RECURSIVE AttachSummaryLoop(_, _)
AttachSummaryLoop(st, refs) ==
    LET after == AttachSummaryPass(st, refs)
    IN  IF Cardinality(st.nb) # Cardinality(after.nb)
        THEN AttachSummaryLoop(after, refs)
        ELSE after

\* what the stores may refer to: for every store, some of the unbound stores
HandleGraphs == [DOMAIN contexts -> SUBSET notBoundContexts]

GetAttachSummary(refs) ==
    LET st == AttachSummaryLoop([ctx |-> contexts, nb |-> notBoundContexts,
                                 pend |-> pendingAttach, subm |-> submitted,
                                 fired |-> attachOpFiredForDataStore, tree |-> {},
                                 passes |-> <<>>],
                                refs)
    IN  /\ Len(st.subm) <= MaxSubmitted
        /\ contexts' = st.ctx
        /\ notBoundContexts' = st.nb
        /\ pendingAttach' = st.pend
        /\ submitted' = st.subm
        /\ attachOpFiredForDataStore' = st.fired
        /\ last' = [Did("getAttachSummary", "", "", FALSE, NoError, TRUE, <<>>, <<>>)
                       EXCEPT !.delivered = st.passes,
                              !.returned = st.tree]
        /\ UNCHANGED <<attachState, aliasMap, pendingAliasMap, dataStoresSinceLastGC,
                       deletedNodes, nextUniqueId,
                   requests,
                   disposeOnce, gcCall>>

-----------------------------------------------------------------------------
(* request / getDataStore *)

\* faulty variant: no promise is waited for
NoPendingAlias(maybeAlias) == FALSE
\* waitIfPendingAlias: is there a promise of a local Alias op to wait for?
WaitIfPendingAlias(maybeAlias) == maybeAlias \in DOMAIN pendingAliasMap

\* internalId: this.aliases.get(maybeAlias) ?? maybeAlias
InternalId(maybeAlias) ==
    IF maybeAlias \in DOMAIN aliasMap THEN aliasMap[maybeAlias] ELSE maybeAlias

\* a header of the request: the boolean it holds, or "unset" when it holds none
HeaderValues == {"true", "false", "unset"}

\* faulty variant: allowTombstone is copied from the header for every request
HeaderDataOfHeaders(req) ==
    [wait |-> req.wait, viaHandle |-> "unset", allowTombstone |-> req.allowTombstone,
     allowInactive |-> "unset"]
\* the RuntimeHeaderData request() builds: a header is copied when it holds a
\* boolean, and allowTombstone is set for a request into a store
HeaderData(req) ==
    [wait |-> req.wait, viaHandle |-> "unset",
     allowTombstone |-> IF req.child THEN "true" ELSE req.allowTombstone,
     allowInactive |-> "unset"]

\* DataStoreContexts.getBoundOrRemoted finds the context at once
Addressable(id) == ContextsHas(id) /\ ~IsNotBound(id)

\* the url of the request without its query, as path parts
UrlWithoutQuery(req) == IF req.child THEN <<req.name, "sub">> ELSE <<req.name>>

\* what request() leaves behind once the context is at hand: gcNodeUpdated is
\* told, the channel is realized and the sub-request is handed to it
RequestServed(op, req, waited) ==
    [Did(op, InternalId(req.name), req.name, waited, NoError, TRUE, <<>>, <<>>)
        EXCEPT !.type = "served",
               !.args = <<req, HeaderData(req)>>,
               !.gcNodeUpdated = <<[path |-> UrlWithoutQuery(req), reason |-> "Loaded",
                                    headerData |-> HeaderData(req)]>>,
               !.delivered = <<InternalId(req.name)>>]

\* the response exception of getDataStore
RequestNotFound(op, id, req, waited) ==
    [Did(op, id, req.name, waited, "404", FALSE, <<>>, <<>>)
        EXCEPT !.type = "failed", !.args = <<req, HeaderData(req)>>]

\* does getDataStore suspend in getBoundOrRemoted(id, wait)?
GetDataStoreWaits(req) ==
    /\ ~CheckAndLogIfDeleted(InternalId(req.name))
    /\ ~Addressable(InternalId(req.name))
    /\ req.wait = "true"

\* request() from internalId() on, for the request `req` (`others` are the
\* other requests suspended)
RouteRequest(req, waited, others) ==
    LET id == InternalId(req.name) IN
    IF CheckAndLogIfDeleted(id)
    THEN /\ requests' = others
         /\ last' = RequestNotFound("request", id, req, waited)
    ELSE IF Addressable(id)
    THEN /\ requests' = others
         /\ last' = RequestServed("request", req, waited)
    ELSE IF GetDataStoreWaits(req)
    THEN /\ requests' = others \cup {[req EXCEPT !.stage = "bound", !.internalId = id]}
         /\ last' = [Did("request", id, req.name, waited, NoError, FALSE, <<>>, <<>>)
                        EXCEPT !.type = "waitBound", !.args = <<req, HeaderData(req)>>]
    ELSE /\ requests' = others
         /\ last' = RequestNotFound("request", id, req, waited)

\* the names a request may begin with: aliases, ids of stores, of deleted stores,
\* and an id no store has
RequestNames == AliasNames \cup DOMAIN contexts \cup deletedNodes \cup {"8"}

\* request(): up to the first await that suspends it
Request(name, child, allowTombstone, wait) ==
    LET req == [name |-> name, child |-> child, allowTombstone |-> allowTombstone,
                wait |-> wait, stage |-> "alias", internalId |-> ""]
    IN  /\ Cardinality(requests) < MaxRequests
        /\ IF WaitIfPendingAlias(name)
           THEN /\ requests' = requests \cup {req}
                /\ last' = [Did("requestIssued", "", name, FALSE, NoError, FALSE, <<>>, <<>>)
                               EXCEPT !.type = "waitAlias"]
           ELSE RouteRequest(req, FALSE, requests)
        /\ UNCHANGED <<attachState, contexts, notBoundContexts, pendingAttach,
                       attachOpFiredForDataStore, aliasMap, pendingAliasMap,
                       dataStoresSinceLastGC, deletedNodes, submitted, nextUniqueId,
                   disposeOnce, gcCall>>

\* request() resumes after the promise of the pending alias has settled
RequestAfterAlias(req) ==
    /\ req \in requests
    /\ req.stage = "settled"
    /\ RouteRequest(req, TRUE, requests \ {req})
    /\ UNCHANGED <<attachState, contexts, notBoundContexts, pendingAttach,
                   attachOpFiredForDataStore, aliasMap, pendingAliasMap,
                   dataStoresSinceLastGC, deletedNodes, submitted, nextUniqueId,
                   disposeOnce, gcCall>>

\* getBoundOrRemoted(id, true) resumes: the store has become addressable, or it
\* has been deleted
RequestAfterBound(req) ==
    /\ req \in requests
    /\ req.stage = "bound"
    /\ Addressable(req.internalId) \/ CheckAndLogIfDeleted(req.internalId)
    /\ requests' = requests \ {req}
    /\ last' = IF Addressable(req.internalId)
               THEN [RequestServed("requestResumed", req, TRUE)
                        EXCEPT !.id = req.internalId,
                               !.delivered = <<req.internalId>>]
               ELSE RequestNotFound("requestResumed", req.internalId, req, TRUE)
    /\ UNCHANGED <<attachState, contexts, notBoundContexts, pendingAttach,
                   attachOpFiredForDataStore, aliasMap, pendingAliasMap,
                   dataStoresSinceLastGC, deletedNodes, submitted, nextUniqueId,
                   disposeOnce, gcCall>>

-----------------------------------------------------------------------------
(* dispose / disposed *)

\* faulty variant: the function runs at every read of the value
LazyValueEveryTime(lazy) == [evaluated |-> TRUE, calls |-> lazy.calls + 1]
\* Lazy.value: the function runs at the first read of the value only
LazyValue(lazy) ==
    IF lazy.evaluated THEN lazy ELSE [evaluated |-> TRUE, calls |-> lazy.calls + 1]

\* DataStoreContexts.dispose: every context of the table is disposed
ContextsDispose == [id \in DOMAIN contexts |-> [contexts[id] EXCEPT !.disposed = TRUE]]

\* ChannelCollection.disposed
Disposed == disposeOnce.evaluated

\* ChannelCollection.dispose: () => this.disposeOnce.value
Dispose ==
    /\ disposeOnce.calls < MaxDisposeCalls
    /\ disposeOnce' = LazyValue(disposeOnce)
    /\ contexts' = IF disposeOnce'.calls > disposeOnce.calls THEN ContextsDispose
                   ELSE contexts
    /\ last' = Did("dispose", "", "", FALSE, NoError, TRUE, <<>>, <<>>)
    /\ UNCHANGED <<attachState, notBoundContexts, pendingAttach,
                   attachOpFiredForDataStore, aliasMap, pendingAliasMap,
                   dataStoresSinceLastGC, deletedNodes, submitted, nextUniqueId,
                   requests, gcCall>>

-----------------------------------------------------------------------------
(* The specification *)

Next ==
    \/ CreateContext
    \/ \E id \in notBoundContexts : MakeDataStoreLocallyVisible(id)
    \/ SetAttachState
    \/ ProcessAttachEcho
    \/ \E id \in StashedIds : ProcessAttachUnmatched(id)
    \/ \E id \in RemoteIds : ProcessAttachRemote(id)
    \/ ProcessAliasEcho
    \/ \E id \in RemoteAliasTargets, alias \in AliasNames : ProcessAliasRemote(id, alias)
    \/ \E id \in DOMAIN contexts, alias \in AliasNames : SubmitAlias(id, alias)
    \/ \E id \in DOMAIN contexts, alias \in AliasNames : AliasDetached(id, alias)
    \/ \E id \in StashedIds : ApplyStashedAttachOp(id)
    \/ \E i \in 1..Len(submitted) : ReSubmit(i)
    \/ \E routes \in SweepReadyRoutes : DeleteSweepReadyNodes(routes)
    \/ UpdateStateBeforeGC

Spec == Init /\ [][Next]_vars

\* Ops and signals addressed to data stores, and rollback.  What they do depends on
\* the context table and the deleted nodes only, so they are explored together
\* with the operations that create, attach and delete contexts; the alias
\* operations, which change neither, are left to Spec.
NextOps ==
    \/ CreateContext
    \/ \E id \in notBoundContexts : MakeDataStoreLocallyVisible(id)
    \/ SetAttachState
    \/ ProcessAttachEcho
    \/ \E id \in RemoteIds : ProcessAttachRemote(id)
    \/ \E id \in StashedIds : ApplyStashedAttachOp(id)
    \/ \E routes \in SweepReadyRoutes \cup SweepOddRoutes : DeleteSweepReadyNodes(routes)
    \/ UpdateStateBeforeGC
    \/ \E address \in ChannelAddresses, contents \in SomePayloads, detect \in BOOLEAN :
           ProcessChannelOp(address, contents, detect)
    \/ \E address \in ChannelAddresses, local \in BOOLEAN : ProcessSignal(address, local)
    \/ RollbackSubmitted
    \/ \E address \in ChannelAddresses : RollbackChannelOp(address)

SpecOps == Init /\ [][NextOps]_vars

\* the processing of FluidDataStoreOps over all the op contents, for stores with a
\* context, deleted stores and unknown stores
NextDetect ==
    \/ \E address \in ChannelAddresses, contents \in Payloads, detect \in BOOLEAN :
           ProcessChannelOp(address, contents, detect)
    \/ \E routes \in SweepReadyRoutes : DeleteSweepReadyNodes(routes)

SpecDetect == Init /\ [][NextDetect]_vars

\* what the garbage collector and the summarizer ask of the collection, explored
\* together with the operations that create, attach and delete contexts
NextGC ==
    \/ CreateContext
    \/ \E id \in notBoundContexts : MakeDataStoreLocallyVisible(id)
    \/ SetAttachState
    \/ ProcessAttachEcho
    \/ \E id \in RemoteIds : ProcessAttachRemote(id)
    \/ \E routes \in SweepReadyRoutes : DeleteSweepReadyNodes(routes)
    \/ GetGCData
    \/ Summarize
    \/ \E routes \in TombstoneRoutes : UpdateTombstonedRoutes(routes)

SpecGC == Init /\ [][NextGC]_vars

\* the attach summary, taken over stores created and made visible in any order,
\* the stores referring to one another in any way
NextSummary ==
    \/ CreateContextWithin(MaxSummaryContexts)
    \/ \E id \in notBoundContexts : MakeDataStoreLocallyVisible(id)
    \/ SetAttachState
    \/ \E refs \in HandleGraphs : GetAttachSummary(refs)

SpecSummary == Init /\ [][NextSummary]_vars

\* requests, explored together with the operations that make a store addressable,
\* alias it and delete it
NextRequest ==
    \/ CreateContext
    \/ \E id \in notBoundContexts : MakeDataStoreLocallyVisible(id)
    \/ ProcessAttachEcho
    \/ \E id \in RemoteIds : ProcessAttachRemote(id)
    \/ ProcessAliasEcho
    \/ \E id \in RemoteAliasTargets, alias \in AliasNames : ProcessAliasRemote(id, alias)
    \/ \E id \in DOMAIN contexts, alias \in AliasNames : SubmitAlias(id, alias)
    \/ \E routes \in SweepReadyRoutes : DeleteSweepReadyNodes(routes)
    \/ \E name \in RequestNames, child \in BOOLEAN, wait \in {"true", "false"} :
           Request(name, child, "unset", wait)
    \/ \E req \in requests : RequestAfterAlias(req)
    \/ \E req \in requests : RequestAfterBound(req)

SpecRequest == Init /\ [][NextRequest]_vars

\* requests with every value of the allowTombstone header, for stores that are
\* addressable, unbound, deleted or unknown
NextHeaders ==
    \/ CreateContext
    \/ \E id \in notBoundContexts : MakeDataStoreLocallyVisible(id)
    \/ \E routes \in SweepReadyRoutes \cup SweepOddRoutes : DeleteSweepReadyNodes(routes)
    \/ \E name \in RequestNames, child \in BOOLEAN, allowTombstone \in HeaderValues,
          wait \in {"true", "false"} : Request(name, child, allowTombstone, wait)
    \/ \E req \in requests : RequestAfterBound(req)

SpecHeaders == Init /\ [][NextHeaders]_vars

\* the inbound ops that emit GC references: Attach ops with and without GC data in
\* their snapshot, Alias ops, FluidDataStoreOps for stores with a context and
\* for deleted stores
NextEmit ==
    \/ CreateContext
    \/ \E id \in notBoundContexts : MakeDataStoreLocallyVisible(id)
    \/ ProcessAttachEcho
    \/ \E id \in RemoteIds \cup {"5"} : ProcessAttachRemote(id)
    \/ \E id \in RemoteAliasTargets, alias \in AliasNames : ProcessAliasRemote(id, alias)
    \/ UpdateStateBeforeGC
    \/ \E routes \in SweepReadyRoutes : DeleteSweepReadyNodes(routes)
    \/ \E address \in ChannelAddresses, contents \in SomePayloads, detect \in BOOLEAN :
           ProcessChannelOp(address, contents, detect)

SpecEmit == Init /\ [][NextEmit]_vars

\* the operations that add contexts to the table, move them and remove them, with
\* remote and stashed Attach ops that name ids this client uses for its own
\* stores; the id of a deleted store is not used again
NextPartition ==
    \/ CreateContext
    \/ \E id \in notBoundContexts : MakeDataStoreLocallyVisible(id)
    \/ SetAttachState
    \/ ProcessAttachEcho
    \/ \E id \in (RemoteIds \cup {"0", "1"}) \ deletedNodes : ProcessAttachRemote(id)
    \/ \E id \in (StashedIds \cup {"0", "1"}) \ deletedNodes : ApplyStashedAttachOp(id)
    \/ \E routes \in SweepReadyRoutes : DeleteSweepReadyNodes(routes)
    \/ UpdateStateBeforeGC

SpecPartition == Init /\ [][NextPartition]_vars

\* the stores of the snapshot a Detached container is rehydrated from: the stores
\* that were bound when the container was serialized
RehydratedStores == {{}, {"0"}, {"0", "4"}}

\* the state after construction, a rehydrated Detached container included
InitIds ==
    /\ attachState \in {Detached, Attached}
    /\ \E base \in (IF attachState = Detached THEN RehydratedStores
                    ELSE BaseSnapshotStores(attachState)) :
          contexts = [id \in base |->
                          NewContext(ExistingAttachState(attachState),
                                     attachState = Detached, FALSE)]
    /\ notBoundContexts = {}
    /\ pendingAttach = EmptyMap
    /\ attachOpFiredForDataStore = {}
    /\ aliasMap = EmptyMap
    /\ pendingAliasMap = EmptyMap
    /\ dataStoresSinceLastGC = <<>>
    /\ deletedNodes = {}
    /\ submitted = <<>>
    /\ nextUniqueId = 0
    /\ requests = {}
    /\ disposeOnce = NotEvaluated
    /\ gcCall = NoCall
    /\ last = Did("init", "", "", FALSE, NoError, FALSE, <<>>, <<>>)

\* ids of Attach ops of other clients: an id given by the user, the id of a store
\* made in a Detached container, an id made from a number of the runtime that this
\* client is never given
IdRemoteIds == {"root", "2", "11"}
\* ids of stashed Attach ops: stores an earlier session made, in the Detached
\* container and after it
IdStashedIds == {"2", "7"}

\* the operations that add contexts to the table and remove them, the new ids made
\* from numbers and from uuids that the runtime gives to no one else
NextIds ==
    \/ \E number \in BOOLEAN :
           CreateContextOf(MaxIdContexts, MaxIdUniqueIds,
                           IF number THEN UniqueNumber(nextUniqueId)
                           ELSE UniqueString(nextUniqueId))
    \/ SetAttachState
    \/ \E id \in IdRemoteIds : ProcessAttachRemote(id)
    \/ \E id \in IdStashedIds : ApplyStashedAttachOp(id)
    \/ \E routes \in SweepReadyRoutes : DeleteSweepReadyNodes(routes)
    \/ UpdateStateBeforeGC

SpecIds == InitIds /\ [][NextIds]_vars

\* dispose, called at any time between the operations that create contexts and
\* make them visible
NextDispose ==
    \/ CreateContext
    \/ \E id \in notBoundContexts : MakeDataStoreLocallyVisible(id)
    \/ SetAttachState
    \/ Dispose

SpecDispose == Init /\ [][NextDispose]_vars

\* the GC data, asked for at any time between the operations that create stores,
\* attach them and make them roots, and these operations going on while the call
\* waits
NextRoots ==
    \/ CreateContext
    \/ \E id \in notBoundContexts : MakeDataStoreLocallyVisible(id)
    \/ SetAttachState
    \/ ProcessAttachEcho
    \/ \E id \in RemoteIds : ProcessAttachRemote(id)
    \/ ProcessAliasEcho
    \/ \E id \in DOMAIN contexts, alias \in AliasNames : SubmitAlias(id, alias)
    \/ \E id \in DOMAIN contexts, alias \in AliasNames : AliasDetached(id, alias)
    \/ UpdateStateBeforeGC
    \/ GetGCDataCalled
    \/ GetGCDataResumed

SpecRoots == Init /\ [][NextRoots]_vars

\* updateStateBeforeGC, with Attach ops processed and stores deleted while it is
\* suspended
NextSuspended ==
    \/ CreateContext
    \/ \E id \in notBoundContexts : MakeDataStoreLocallyVisible(id)
    \/ ProcessAttachEcho
    \/ \E id \in RemoteIds \cup {"5"} : ProcessAttachRemoteUpTo(id, MaxSinceGCSuspended)
    \/ \E routes \in SweepReadyRoutes : DeleteSweepReadyNodes(routes)
    \/ UpdateStateBeforeGCCalled
    \/ UpdateStateBeforeGCResumed

SpecSuspended == Init /\ [][NextSuspended]_vars

-----------------------------------------------------------------------------
(* Claims *)

\* the ids of the contexts in state Attaching, in a container that is not Detached
AttachingIds ==
    {id \in DOMAIN contexts :
        contexts[id].attachState = Attaching /\ attachState # Detached}

\* C1 as stated, for the container-level setAttachState it lists: after the
\* operation the keys of pendingAttach are exactly the ids of the contexts in
\* state Attaching while the container is not Detached.
C1_AsStated == last.op = "setAttachState" => DOMAIN pendingAttach = AttachingIds

\* C1, amended: pendingAttach is empty while the container is Detached; every id
\* in pendingAttach whose context is in the table has that context in state
\* Attaching or Attached; and once the container is Attached every context in
\* state Attaching has its id in pendingAttach.
C1_PendingAttachVersusAttaching ==
    /\ attachState = Detached => DOMAIN pendingAttach = {}
    /\ \A id \in DOMAIN pendingAttach \cap DOMAIN contexts :
          contexts[id].attachState \in {Attaching, Attached}
    /\ attachState = Attached =>
          \A id \in DOMAIN contexts :
              contexts[id].attachState = Attaching => id \in DOMAIN pendingAttach

\* C1, the case the amendment is about: the container-level setAttachState has
\* moved a context to Attached while its Attach op is still pending.
C1_Witness ==
    /\ last.op = "setAttachState"
    /\ attachState = Attached
    /\ \E id \in DOMAIN pendingAttach :
          ContextsHas(id) /\ contexts[id].attachState = Attached

\* C2: once the local echo of the Attach op of a store that was made visible in a
\* container that is not Detached has been processed, the store's context is
\* Attached and its id is not in pendingAttach.
C2_EchoLeavesAttached ==
    (/\ last.op = "processAttach"
     /\ last.local
     /\ last.error = NoError
     /\ last.id \in attachOpFiredForDataStore)
    => /\ ContextsHas(last.id)
       /\ contexts[last.id].attachState = Attached
       /\ last.id \notin DOMAIN pendingAttach

\* C2, the case: the echo of a store made visible by this client was processed.
C2_Witness ==
    /\ last.op = "processAttach"
    /\ last.local
    /\ last.error = NoError
    /\ last.id \in attachOpFiredForDataStore
    /\ ContextsHas(last.id)

\* C3: an id is in pendingAttach exactly when a local Attach op for it is in
\* flight (submitted, or applied from the stash, and not yet echoed).
C3_PendingAttachIsInFlight == DOMAIN pendingAttach = SubmittedAttachIds

\* C3, the case: a stashed Attach op was applied while another local Attach op
\* is in flight, and both are pending.
C3_Witness ==
    /\ last.op = "applyStashedAttach"
    /\ last.error = NoError
    /\ Cardinality(DOMAIN pendingAttach) = 2

\* the step is the processing of an Alias op (inbound, or the direct call made in
\* a Detached container)
IsAliasStep == last'.op \in {"processAlias", "processAliasMessageCore"}

\* C4: an Alias op whose alias is already a key of the alias map or the id of a
\* context is rejected: the result is false, the alias map and every context are
\* as before, and no GC reference is emitted.
C4_TakenNameRejected ==
    [][(IsAliasStep
        /\ (last'.alias \in DOMAIN aliasMap \/ last'.alias \in DOMAIN contexts))
       => /\ last'.result = FALSE
          /\ aliasMap' = aliasMap
          /\ contexts' = contexts
          /\ last'.emitted = <<>>]_vars

\* C4, the case: an Alias op was rejected because its alias is the id of a context
\* and not a key of the alias map.
C4_Witness ==
    /\ last.op = "processAlias"
    /\ last.result = FALSE
    /\ last.alias \in DOMAIN contexts
    /\ last.alias \notin DOMAIN aliasMap
    /\ ContextsHas(last.id)
    /\ last.id \notin deletedNodes

\* C5 as stated, seen from the submitter of a rejected op: if a local Alias op for
\* a name resolves as Conflict, another Alias op for that name has committed.
C5_AsStated ==
    (last.op = "processAlias" /\ last.local /\ last.resolved = <<FALSE>>)
    => last.alias \in DOMAIN aliasMap

\* C5, amended: at most one Alias op for a name commits.  An op commits only when
\* the name is not yet in the alias map, and it then maps the name to its store;
\* every op for a name that is in the alias map is rejected, its resolver called
\* once with false when the op is local, and the alias map stays as it is.
C5_AtMostOneCommits ==
    [][IsAliasStep
       => /\ last'.result = TRUE =>
                /\ last'.alias \notin DOMAIN aliasMap
                /\ aliasMap' = MapSet(aliasMap, last'.alias, last'.id)
          /\ last'.alias \in DOMAIN aliasMap =>
                /\ last'.result = FALSE
                /\ last'.resolved = (IF last'.local THEN <<FALSE>> ELSE <<>>)
                /\ aliasMap' = aliasMap]_vars

\* C5, the case: another client's Alias op for the name committed first, and the
\* local op for the same name and another store resolved as Conflict.
C5_Witness ==
    /\ last.op = "processAlias"
    /\ last.local
    /\ last.resolved = <<FALSE>>
    /\ last.alias \in DOMAIN aliasMap
    /\ aliasMap[last.alias] # last.id

C7_AsStated == \A a \in DOMAIN aliasMap : ContextsHas(aliasMap[a])

\* C7, amended: every value of the alias map is the id of a context that is in the
\* table or was deleted from it: deleteChild leaves the alias entries in place.
C7_AliasTargetsKnown ==
    \A a \in DOMAIN aliasMap : ContextsHas(aliasMap[a]) \/ aliasMap[a] \in deletedNodes

\* C7, the case: the store of a committed alias was deleted.
C7_Witness ==
    /\ last.op = "deleteSweepReadyNodes"
    /\ \E a \in DOMAIN aliasMap : ~ContextsHas(aliasMap[a])

\* C8: a local Alias op (X, A), processed when A is neither an alias nor the id of
\* a context and X has a context and is not deleted, sets aliases[A] = X, marks
\* the context of X in-memory root, and calls the resolver once, with true.
C8_LocalAliasCommits ==
    [][(/\ last'.op = "processAlias"
        /\ last'.local
        /\ last'.alias \notin DOMAIN aliasMap
        /\ last'.alias \notin DOMAIN contexts
        /\ last'.id \in DOMAIN contexts
        /\ last'.id \notin deletedNodes)
       => /\ last'.alias \in DOMAIN aliasMap'
          /\ aliasMap'[last'.alias] = last'.id
          /\ last'.id \in DOMAIN contexts'
          /\ contexts'[last'.id].inMemoryRoot
          /\ last'.resolved = <<TRUE>>]_vars

\* C8, the case: a local Alias op committed.
C8_Witness ==
    /\ last.op = "processAlias"
    /\ last.local
    /\ last.resolved = <<TRUE>>
    /\ last.alias \in DOMAIN aliasMap

\* C9: a remote Attach op whose id is the id of a context or a key of the alias
\* map fails with a DataCorruptionError and leaves the context table as it is.
C9_DuplicateAttachRejected ==
    [][(/\ last'.op = "processAttach"
        /\ ~last'.local
        /\ (last'.id \in DOMAIN contexts \/ last'.id \in DOMAIN aliasMap))
       => /\ last'.error = "DataCorruptionError"
          /\ contexts' = contexts]_vars

\* C9, the case: the id of the rejected Attach op is a key of the alias map and
\* not the id of a context.
C9_Witness ==
    /\ last.op = "processAttach"
    /\ ~last.local
    /\ last.error = "DataCorruptionError"
    /\ last.id \in DOMAIN aliasMap
    /\ ~ContextsHas(last.id)

\* C10: an Attach op flagged local whose id is not in pendingAttach fails the
\* assertion, and leaves every context and pendingAttach as they are.
C10_UnmatchedEchoAsserts ==
    [][(/\ last'.op = "processAttach"
        /\ last'.local
        /\ last'.id \notin DOMAIN pendingAttach)
       => /\ last'.error = "assert"
          /\ contexts' = contexts
          /\ pendingAttach' = pendingAttach]_vars

\* C10, the case: the assertion failed for an id that has a context.
C10_Witness ==
    /\ last.op = "processAttach"
    /\ last.local
    /\ last.error = "assert"
    /\ ContextsHas(last.id)

\* C11: making an unbound local store visible submits an Attach op iff the
\* container is not Detached.  Not Detached: exactly one message, with the id, the
\* last element of the package path as type and the snapshot, is appended to the
\* submitted ops, the id enters pendingAttach with that message and the context is
\* Attaching.  Detached: nothing is submitted, pendingAttach is unchanged and the
\* context stays Detached.  In both cases the context moves from unbound to bound.
C11_MakeVisibleSubmitsIffNotDetached ==
    [][last'.op = "makeVisible"
       => LET id == last'.id
              pkg == contexts[id].pkg
              msg == [id |-> id, type |-> pkg[Len(pkg)], routes |-> <<>>]
          IN  /\ id \in notBoundContexts
              /\ id \notin notBoundContexts'
              /\ id \in DOMAIN contexts'
              /\ IF attachState # Detached
                 THEN /\ Len(submitted') = Len(submitted) + 1
                      /\ SubSeq(submitted', 1, Len(submitted)) = submitted
                      /\ submitted'[Len(submitted')].type = "attach"
                      /\ submitted'[Len(submitted')].msg = msg
                      /\ pendingAttach' = MapSet(pendingAttach, id, msg)
                      /\ contexts'[id].attachState = Attaching
                 ELSE /\ submitted' = submitted
                      /\ pendingAttach' = pendingAttach
                      /\ contexts'[id].attachState = Detached]_vars

\* C11, the case: a store was made visible in a container that is not Detached
\* while another local Attach op was already in flight.
C11_Witness ==
    /\ last.op = "makeVisible"
    /\ attachState # Detached
    /\ last.id \in DOMAIN pendingAttach
    /\ Len(submitted) = 2

C13_AsStated ==
    (last.op = "rollback" /\ last.type = "attach"
        /\ last.id \in attachOpFiredForDataStore)
    => /\ last.id \notin DOMAIN pendingAttach
       /\ last.id \in notBoundContexts

\* C14: a FluidDataStoreOp or a signal addressed to a store the garbage collector
\* reports as deleted is dropped: it is handed to no context, gcNodeUpdated is not
\* called, the error event is logged, and the call returns without throwing.
C14_DeletedStoreDrops ==
    (last.op \in {"processOp", "processSignal"} /\ last.id \in deletedNodes)
    => /\ last.error = NoError
       /\ last.delivered = <<>>
       /\ last.gcNodeUpdated = <<>>
       /\ last.logged = <<"GC_Deleted_DataStore_Changed">>

\* C14, the case: a signal arrived for a deleted store.
C14_Witness ==
    /\ last.op = "processSignal"
    /\ last.id \in deletedNodes
    /\ last.logged # <<>>

C16_NoContextFails ==
    (last.op = "processOp" /\ last.id \notin deletedNodes /\ ~ContextsHas(last.id))
    => /\ last.error = "DataProcessingError"
       /\ last.delivered = <<>>
       /\ last.gcNodeUpdated = <<>>

\* C16, the case: an op arrived for a store this client does not know.
C16_Witness ==
    /\ last.op = "processOp"
    /\ last.id \notin deletedNodes
    /\ ~ContextsHas(last.id)
    /\ last.error = "DataProcessingError"

\* C17: deleteSweepReadyNodes does not throw and returns exactly the routes it was
\* given, whether they name stores with a context, deleted stores, unknown ids or
\* sub-paths.
C17_SweepReturnsInput ==
    last.op = "deleteSweepReadyNodes"
    => /\ last.error = NoError
       /\ last.returned = last.args

\* C17, the case: the routes held a sub-path and the route of a store never known,
\* for which the error event was logged.
C17_Witness ==
    /\ last.op = "deleteSweepReadyNodes"
    /\ Len(last.args) = 2
    /\ last.logged = <<"error">>
    /\ last.returned = last.args

\* C18: deleteSweepReadyNodes(routes) removes from the context table exactly the
\* contexts whose route "/id" is among the routes, calls deleteChild once for each
\* of them, deletes nothing for a route of more than two parts, and leaves every
\* other context as it is.
C18_SweepDeletesExactRoutes ==
    [][last'.op = "deleteSweepReadyNodes"
       => LET routes == last'.args
              exact == {id \in DOMAIN contexts :
                           \E i \in 1..Len(routes) : routes[i] = <<id>>}
          IN  /\ DOMAIN contexts' = DOMAIN contexts \ exact
              /\ \A id \in DOMAIN contexts' : contexts'[id] = contexts[id]
              /\ {last'.deleted[i] : i \in 1..Len(last'.deleted)} = exact
              /\ Len(last'.deleted) = Cardinality(exact)]_vars

\* C18, the case: the route of a store was given twice, the store was deleted once
\* and another context was left in the table.
C18_Witness ==
    /\ last.op = "deleteSweepReadyNodes"
    /\ Len(last.args) = 2
    /\ last.args[1] = last.args[2]
    /\ Len(last.deleted) = 1
    /\ DOMAIN contexts # {}

\* every property [key, value] inside a value, at any depth, parents before
\* children and siblings in the order of Object.entries
RECURSIVE PropertiesOf(_), PropertiesFrom(_, _)
PropertiesFrom(value, i) ==
    IF i > Len(value.e) THEN <<>>
    ELSE <<value.e[i]>> \o PropertiesOf(value.e[i].v) \o PropertiesFrom(value, i + 1)

PropertiesOf(value) == IF value.t = "obj" THEN PropertiesFrom(value, 1) ELSE <<>>

\* the urls of the handle-shaped values inside the contents, in that order
HandleUrls(contents) ==
    LET handles == SelectSeq(PropertiesOf(contents), LAMBDA p : IsSerializedHandle(p.v))
    IN  [i \in 1..Len(handles) |-> GetProp(handles[i].v, "url").s]

\* the properties named "address" inside the contents, in that order
AddressProperties(contents) ==
    SelectSeq(PropertiesOf(contents), LAMBDA p : p.k = "address")

\* a FluidDataStoreOp was processed without error with detection enabled
DetectionRan ==
    last.op = "processOp" /\ last.error = NoError /\ last.args.detect

\* C19: with detection enabled, the targets reported for a processed
\* FluidDataStoreOp are the urls of the handle-shaped values found at any depth
\* inside the op contents, in traversal order; they are a function of the contents
\* alone, whatever the address and the state of the collection.
C19_TargetsAreHandleUrls ==
    DetectionRan
    => [i \in 1..Len(last.emitted) |-> last.emitted[i].to]
           = HandleUrls(last.args.contents)

\* C19, the case: the contents held two handles with different urls, next to a
\* value that is not a handle.
C19_Witness ==
    /\ DetectionRan
    /\ Len(last.emitted) = 2
    /\ last.emitted[1].to = "/3"
    /\ last.emitted[2].to = "/2/dds1"

\* C20: all references emitted for a processed FluidDataStoreOp addressed to A
\* have the same source path; when the contents hold a property named "address",
\* the path is "/A/D" with D the value of the first one met in the traversal; and
\* there is one emission per handle found.
C20_OneSourcePath ==
    DetectionRan
    => LET addresses == AddressProperties(last.args.contents) IN
       /\ \A i \in 1..Len(last.emitted) : last.emitted[i].from = last.emitted[1].from
       /\ addresses # <<>> =>
             \A i \in 1..Len(last.emitted) :
                 last.emitted[i].from = "/" \o last.id \o "/" \o addresses[1].v.s
       /\ Len(last.emitted) = Len(HandleUrls(last.args.contents))

\* C20, the case: the first "address" met in the traversal is the one of an inner
\* object, met before the envelope's own address property.
C20_Witness ==
    /\ DetectionRan
    /\ last.emitted # <<>>
    /\ last.emitted[1].from = "/" \o last.id \o "/inner"
    /\ HasProp(last.args.contents, "address")
    /\ GetProp(last.args.contents, "address") = Str("dds0")


\* C21: getGCData fails with a DataProcessingError exactly when some context is in
\* state Attaching; otherwise the nodes it returns, the node "/" of the collection
\* apart, are those of the contexts in state Attached and of no other context, each
\* id prefixed with "/contextId".
C21_GCDataOfAttachedOnly ==
    last.op = "getGCData" =>
        /\ (last.error = "DataProcessingError") <=>
               (\E id \in DOMAIN contexts : contexts[id].attachState = Attaching)
        /\ last.error \in {"DataProcessingError", NoError}
        /\ last.error = NoError =>
               /\ \A n \in last.returned :
                      \/ n.id = <<>>
                      \/ /\ ContextsHas(n.id[1])
                         /\ contexts[n.id[1]].attachState = Attached
               /\ \A id \in DOMAIN contexts :
                      contexts[id].attachState = Attached =>
                          \E n \in last.returned : n.id = <<id>>

\* GC data was returned while one context was Attached and another Detached
C21_Witness ==
    /\ last.op = "getGCData"
    /\ last.error = NoError
    /\ \E id \in DOMAIN contexts : contexts[id].attachState = Attached
    /\ \E id \in DOMAIN contexts : contexts[id].attachState = Detached
    /\ Cardinality(last.returned) > 1

\* C22: summarize fails with a DataProcessingError exactly when some context is in
\* state Attaching; otherwise the tree holds exactly one entry for every context in
\* state Attached, under its internal id, and none for any other context.
C22_SummaryOfAttachedOnly ==
    last.op = "summarize" =>
        /\ (last.error = "DataProcessingError") <=>
               (\E id \in DOMAIN contexts : contexts[id].attachState = Attaching)
        /\ last.error \in {"DataProcessingError", NoError}
        /\ last.error = NoError =>
               \A id \in DOMAIN contexts \cup {last.returned[i] : i \in 1..Len(last.returned)} :
                   Cardinality({i \in 1..Len(last.returned) : last.returned[i] = id})
                       = IF ContextsHas(id) /\ contexts[id].attachState = Attached
                         THEN 1 ELSE 0

\* a summary was built while one context was Attached and another Detached
C22_Witness ==
    /\ last.op = "summarize"
    /\ last.error = NoError
    /\ Len(last.returned) > 0
    /\ \E id \in DOMAIN contexts : contexts[id].attachState = Detached

\* C24: when updateTombstonedRoutes(routes) returns, every context is tombstoned if
\* and only if the route "/id" itself is among the routes: a route into the store
\* does not tombstone it, and a store tombstoned by an earlier call is no longer
\* tombstoned when its route is absent.
C24_TombstonedIffExactRoute ==
    (last.op = "updateTombstonedRoutes" /\ last.error = NoError) =>
        \A id \in DOMAIN contexts :
            contexts[id].tombstoned <=>
                (\E i \in 1..Len(last.args) : last.args[i] = <<id>>)

\* a call that tombstoned one store and left alone a store named by a sub-route only
C24_Witness ==
    /\ last.op = "updateTombstonedRoutes"
    /\ last.error = NoError
    /\ \E id \in DOMAIN contexts :
           /\ ~contexts[id].tombstoned
           /\ \E i \in 1..Len(last.args) :
                  Len(last.args[i]) > 1 /\ last.args[i][1] = id
    /\ \E id \in DOMAIN contexts : contexts[id].tombstoned


\* C23: in a Detached container, the tree getAttachSummary returns has a key for
\* every context that is bound when it returns and has no attach op fired, the
\* stores bound while other stores were being summarized included, and no key for
\* a store that is still unbound.
C23_AttachSummaryKeys ==
    (last.op = "getAttachSummary" /\ attachState = Detached) =>
        last.returned =
            {id \in DOMAIN contexts :
                ~IsNotBound(id) /\ id \notin attachOpFiredForDataStore}

\* a summary of three passes: a store was bound by a store that was itself bound
\* by a third one, and a fourth store stayed unbound
C23_Witness ==
    /\ last.op = "getAttachSummary"
    /\ attachState = Detached
    /\ Len(last.delivered) = 3
    /\ \A i \in 1..3 : last.delivered[i] # {}
    /\ notBoundContexts # {}


\* C25: when updateStateBeforeGC returns, it has emitted, for every id recorded
\* from a processed Attach op since the previous call, one reference from the
\* container's handle to the store's handle if the store is a root and none if it
\* is not, it has emitted nothing else, and the list of recorded ids is empty.
C25_RootsOfNewStoresReferenced ==
    [][(last'.op = "updateStateBeforeGC" /\ last'.error = NoError) =>
          /\ dataStoresSinceLastGC' = <<>>
          /\ \A id \in {dataStoresSinceLastGC[i] : i \in 1..Len(dataStoresSinceLastGC)} :
                 Cardinality({i \in 1..Len(last'.emitted) :
                                 last'.emitted[i].from = <<>> /\ last'.emitted[i].to = <<id>>})
                     = IF IsRoot(id)
                       THEN Cardinality({i \in 1..Len(dataStoresSinceLastGC) :
                                            dataStoresSinceLastGC[i] = id})
                       ELSE 0
          /\ \A i \in 1..Len(last'.emitted) :
                 \E j \in 1..Len(dataStoresSinceLastGC) :
                     last'.emitted[i].to = <<dataStoresSinceLastGC[j]>>
      ]_vars

\* a call that found a root store recorded and emitted its reference
C25_Witness ==
    /\ last.op = "updateStateBeforeGC"
    /\ last.error = NoError
    /\ Len(last.emitted) = 1
    /\ dataStoresSinceLastGC = <<>>


\* C26, as stated: a request whose first path segment resolves, through the alias
\* map or else verbatim, to a store that is deleted or not addressable fails
\* with a 404 response exception, without gcNodeUpdated and without realizing a
\* channel.
C26_AsStated ==
    (/\ last.op = "request"
     /\ last.id \in deletedNodes \/ last.id \notin DOMAIN contexts \ notBoundContexts) =>
        /\ last.error = "404"
        /\ last.gcNodeUpdated = <<>>
        /\ last.delivered = <<>>

\* C26: a request whose first path segment resolves, through the alias map or
\* else verbatim, to a store that is deleted, or to a store that is not
\* addressable while the request does not wait, fails with a 404 response
\* exception, without gcNodeUpdated and without realizing a channel; a request
\* that waits for a store that is neither deleted nor addressable is suspended,
\* and has called neither so far.
C26_NotFoundUnlessWaiting ==
    last.op = "request" =>
        /\ (\/ last.id \in deletedNodes
            \/ /\ last.id \notin DOMAIN contexts \ notBoundContexts
               /\ last.args[1].wait = "false") =>
               /\ last.error = "404"
               /\ last.gcNodeUpdated = <<>>
               /\ last.delivered = <<>>
        /\ (/\ last.id \notin deletedNodes
            /\ last.id \notin DOMAIN contexts \ notBoundContexts
            /\ last.args[1].wait = "true") =>
               /\ last.error = NoError
               /\ last.type = "waitBound"
               /\ \E r \in requests :
                      r.stage = "bound" /\ r.name = last.alias /\ r.internalId = last.id
               /\ last.gcNodeUpdated = <<>>
               /\ last.delivered = <<>>

\* a request by an alias whose store has been deleted failed with 404
C26_Witness ==
    /\ last.op = "request"
    /\ last.error = "404"
    /\ last.alias \in DOMAIN aliasMap
    /\ last.id = aliasMap[last.alias]
    /\ last.id \in deletedNodes

\* C27: a request resolves its internal id only once the pending alias of its
\* first segment, if there was one when it was made, has settled; it is then
\* routed to the store the alias map holds for the segment at that time (the store
\* of the alias if it committed), or to the segment taken as an id if the map
\* holds none.
C27_RoutedAfterAliasSettles ==
    [][last'.op = "request" =>
          /\ IF last'.local
             THEN \E r \in requests :
                      r.stage = "settled" /\ r.name = last'.alias /\ r \notin requests'
             ELSE last'.alias \notin DOMAIN pendingAliasMap
          /\ last'.id = IF last'.alias \in DOMAIN aliasMap
                        THEN aliasMap[last'.alias]
                        ELSE last'.alias
      ]_vars

\* a request that waited for a pending alias and was served by the store the
\* alias committed to
C27_Witness ==
    /\ last.op = "request"
    /\ last.local
    /\ last.type = "served"
    /\ last.alias \in DOMAIN aliasMap
    /\ last.id = aliasMap[last.alias]
    /\ last.id # last.alias

\* C28: the header data a request hands to getDataStore and to gcNodeUpdated has
\* allowTombstone true when the request has more than one path segment, whatever
\* its header says; for a request of one segment it is the boolean of the header,
\* and unset when the header holds none.
C28_AllowTombstoneForChildRequests ==
    last.op \in {"request", "requestResumed"} =>
        LET expected == IF last.args[1].child THEN "true"
                        ELSE last.args[1].allowTombstone
        IN  /\ last.args[2].allowTombstone = expected
            /\ \A i \in 1..Len(last.gcNodeUpdated) :
                   last.gcNodeUpdated[i].headerData.allowTombstone = expected

\* a request into a store, its header allowTombstone false, was served
C28_Witness ==
    /\ last.op = "request"
    /\ last.type = "served"
    /\ last.args[1].child
    /\ last.args[1].allowTombstone = "false"
    /\ Len(last.gcNodeUpdated) = 1
    /\ last.gcNodeUpdated[1].headerData.allowTombstone = "true"


\* the inbound ops: Attach, Alias, FluidDataStoreOp
IsInboundOp == last.op \in {"processAttach", "processAlias", "processOp"}

\* C29, as stated: every reference an inbound op (Attach, Alias, FluidDataStoreOp)
\* emits is emitted after the op's own state effect has been applied: the remote
\* context added, the alias map written and the context marked root, the op
\* delivered to the context it is addressed to.
C29_AsStated ==
    IsInboundOp =>
        /\ \A i \in 1..Len(last.emitted) : last.emitted[i].applied
        /\ (last.op = "processOp" /\ last.emitted # <<>>) => last.delivered = <<last.id>>
        /\ (last.op = "processAttach" /\ last.emitted # <<>>) => last.error = NoError

\* C30: after any sequence of createContext, makeDataStoreLocallyVisible, remote
\* Attach ops, stashed Attach ops and deletions, no id of the unbound partition is
\* also bound or remoted: every unbound id has a context, and that context is a
\* local one, still Detached, for which no attach op has been fired.
C30_UnboundNotBoundOrRemoted ==
    \A id \in notBoundContexts :
        /\ ContextsHas(id)
        /\ contexts[id].isLocal
        /\ contexts[id].attachState = Detached
        /\ id \notin attachOpFiredForDataStore

\* a remote Attach op named the id of an unbound store and was rejected
C30_Witness ==
    /\ last.op = "processAttach"
    /\ ~last.local
    /\ last.error = "DataCorruptionError"
    /\ last.id \in notBoundContexts

\* C31: the id createContext is given is the compact encoding of the even number
\* 2 * (number of contexts in the table) when the container is Detached, and of
\* the odd number 2 * n + 1 when it is not and the runtime gives the number n; an
\* id made in a Detached container is the encoding of no odd number, and an id
\* made from a number of the runtime the encoding of no even number.
C31_IdNamespacesDisjoint ==
    [][last'.op = "createContext" =>
          /\ attachState = Detached =>
                /\ last'.id = EncodeCompactIdToString(2 * Cardinality(DOMAIN contexts))
                /\ \A n \in 0..(2 * MaxIdContexts) :
                       last'.id # EncodeCompactIdToString(2 * n + 1)
          /\ (attachState # Detached /\ last'.args[1].number) =>
                /\ last'.id = EncodeCompactIdToString(2 * last'.args[1].n + 1)
                /\ \A c \in 0..(2 * MaxIdContexts) :
                       last'.id # EncodeCompactIdToString(2 * c)
      ]_vars

\* a store was given the id of a number of the runtime while the table holds
\* stores that were made in the Detached container
C31_Witness ==
    /\ last.op = "createContext"
    /\ last.error = NoError
    /\ attachState = Attached
    /\ last.args[1].number
    /\ last.id = "3"
    /\ {"0", "2"} \subseteq DOMAIN contexts

\* C36, as stated: the id createContext is given by createDataStoreId is never the
\* id of a context that is in the table, after any sequence of context creations,
\* remote attaches, stashed attaches and deletions, the runtime giving every
\* number and every uuid once and to one client only.
C36_AsStated ==
    [][last'.op = "createContext" => last'.id \notin DOMAIN contexts]_vars

\* C32: dispose is idempotent.  The first call runs the disposal of the context
\* table, once, and every context of the table is disposed; a later call changes
\* nothing, a context created since the first call included; the disposed flag
\* is false until the first call, changes at a call of dispose only, and once
\* true stays true.
C32_DisposeIdempotent ==
    [][/\ last'.op = "dispose" =>
              /\ disposeOnce'.evaluated
              /\ IF ~disposeOnce.evaluated
                 THEN /\ disposeOnce'.calls = disposeOnce.calls + 1
                      /\ DOMAIN contexts' = DOMAIN contexts
                      /\ \A id \in DOMAIN contexts : contexts'[id].disposed
                 ELSE /\ disposeOnce' = disposeOnce
                      /\ contexts' = contexts
       /\ last'.op # "dispose" => disposeOnce' = disposeOnce
       /\ disposeOnce.evaluated => disposeOnce'.evaluated
       /\ disposeOnce'.evaluated <=> disposeOnce'.calls = 1
      ]_vars

\* dispose was called again after a context was created in the disposed
\* collection: the context table was disposed once and the new context is not
C32_Witness ==
    /\ last.op = "dispose"
    /\ disposeOnce.evaluated
    /\ disposeOnce.calls = 1
    /\ \E id \in DOMAIN contexts : contexts[id].disposed
    /\ \E id \in DOMAIN contexts : ~contexts[id].disposed

\* C33: an entry of the alias map is permanent.  Whatever is processed next, a
\* name that is committed stays in the map with the id it was committed with;
\* and an Alias op for that name, local or remote, for that store or for another,
\* is rejected: its result is false, it emits no reference, it marks no context
\* root, and its resolver, if it is local, is called once with false.
C33_CommittedAliasStays ==
    [][\A a \in DOMAIN aliasMap :
          /\ a \in DOMAIN aliasMap'
          /\ aliasMap'[a] = aliasMap[a]
          /\ (last'.op \in {"processAlias", "processAliasMessageCore"}
              /\ last'.alias = a) =>
                 /\ last'.result = FALSE
                 /\ last'.emitted = <<>>
                 /\ contexts' = contexts
                 /\ last'.resolved = (IF last'.local THEN <<FALSE>> ELSE <<>>)
      ]_vars

\* an Alias op of another client, for a store that is in the table and is not the
\* store the name is committed to, was rejected
C33_Witness ==
    /\ last.op = "processAlias"
    /\ ~last.local
    /\ last.result = FALSE
    /\ last.alias \in DOMAIN aliasMap
    /\ aliasMap[last.alias] # last.id
    /\ ContextsHas(last.id)
    /\ last.id \notin deletedNodes
    /\ last.alias \notin DOMAIN contexts

\* C34, as stated: a FluidDataStoreOp that is dropped because the store it is
\* addressed to is deleted emits no reference for the handles in its contents.
C34_AsStated ==
    (/\ last.op = "processOp"
     /\ last.id \in deletedNodes
     /\ last.delivered = <<>>) => last.emitted = <<>>

\* C37, as stated: in the GC data getGCData returns, every outbound route "/id" of
\* the node "/" names a store whose own GC nodes are in the same result, a store
\* in attach state Attached.
C37_AsStated ==
    (last.op = "getGCData" /\ last.error = NoError) =>
        \A node \in last.returned :
            node.id = <<>> =>
                \A route \in node.outbound :
                    /\ \E n \in last.returned : n.id = route
                    /\ ContextsHas(route[1])
                    /\ contexts[route[1]].attachState = Attached

\* C39: no id is cleared from the list of new stores unexamined.  A step either
\* leaves the ids of the list in place, new ids being added behind them, or it
\* is the return of a call of updateStateBeforeGC that has examined every id of
\* the list, in order, those added while the call was suspended included.
C39_NoIdClearedUnexamined ==
    [][\/ /\ Len(dataStoresSinceLastGC') >= Len(dataStoresSinceLastGC)
          /\ \A i \in 1..Len(dataStoresSinceLastGC) :
                 dataStoresSinceLastGC'[i] = dataStoresSinceLastGC[i]
       \/ /\ last'.op = "updateStateBeforeGC"
          /\ last'.error = NoError
          /\ last'.delivered = dataStoresSinceLastGC
          /\ dataStoresSinceLastGC' = <<>>
      ]_vars

\* a call returned that examined two stores, the second one attached while the
\* call was suspended for the first, and emitted the reference of the root among
\* them
C39_Witness ==
    /\ last.op = "updateStateBeforeGC"
    /\ last.error = NoError
    /\ last.args = <<1>>
    /\ Len(last.delivered) = 2
    /\ Len(last.emitted) = 1
    /\ dataStoresSinceLastGC = <<>>

\* C35, as stated: whenever updateStateBeforeGC runs, every id of the list of new
\* stores has a context in the table, so the call does not fail its assertion
\* "Missing data store context", whatever Attach ops (local, remote, rejected)
\* were processed and whatever stores were deleted before.
C35_AsStated == last.op = "updateStateBeforeGC" => last.error # "assert"

\* C38: a stashed Attach op that is applied adds the context of its id to the
\* table as a bound context; in a container that is not Detached the id is then
\* in pendingAttach, and in a Detached container pendingAttach is as before.  The
\* local echo of an Attach op that is pending and was not submitted by
\* makeDataStoreLocallyVisible, which is a stashed one, fails no assertion,
\* leaves the context Attached and removes the id from pendingAttach.
C38_StashedAttachThenEcho ==
    [][/\ (last'.op = "applyStashedAttach" /\ last'.error = NoError) =>
              /\ last'.id \notin DOMAIN contexts
              /\ last'.id \in DOMAIN contexts'
              /\ last'.id \notin notBoundContexts'
              /\ IF attachState # Detached
                 THEN /\ last'.id \in DOMAIN pendingAttach'
                      /\ pendingAttach'[last'.id].id = last'.id
                 ELSE pendingAttach' = pendingAttach
       /\ (/\ last'.op = "processAttach"
           /\ last'.local
           /\ last'.id \in DOMAIN pendingAttach
           /\ last'.id \notin attachOpFiredForDataStore) =>
              /\ last'.error = NoError
              /\ last'.id \in DOMAIN contexts'
              /\ contexts'[last'.id].attachState = Attached
              /\ last'.id \notin DOMAIN pendingAttach'
      ]_vars

\* the echo of a stashed Attach op was processed: its store is Attached, bound,
\* and no longer pending
C38_Witness ==
    /\ last.op = "processAttach"
    /\ last.local
    /\ last.error = NoError
    /\ last.id \in StashedIds
    /\ last.id \notin attachOpFiredForDataStore
    /\ ContextsHas(last.id)
    /\ contexts[last.id].isLocal
    /\ contexts[last.id].attachState = Attached
    /\ last.id \notin notBoundContexts
    /\ last.id \notin DOMAIN pendingAttach

\* C40: getAttachSummary returns after at most one pass more than there were
\* unbound stores when it was called; no store is summarized in two passes; and
\* every pass but the last one bound a store, so that a pass is repeated only
\* when the number of unbound stores changed during the pass before it.
C40_SummaryTerminatesOncePerStore ==
    [][last'.op = "getAttachSummary" =>
          LET passes == last'.delivered IN
          /\ Len(passes) >= 1
          /\ Len(passes) <= Cardinality(notBoundContexts) + 1
          /\ Len(passes) <= Cardinality(notBoundContexts \ notBoundContexts') + 1
          /\ \A i \in 1..Len(passes), j \in 1..Len(passes) :
                 i # j => passes[i] \cap passes[j] = {}
          /\ \A i \in 2..Len(passes) :
                 passes[i] \subseteq notBoundContexts \ notBoundContexts'
          /\ last'.returned = UNION {passes[i] : i \in 1..Len(passes)}
      ]_vars

\* a summary of two passes in a Detached container: the first pass summarized
\* two stores and bound a third, the second pass summarized the third and bound
\* none, and a fourth store stayed unbound
C40_Witness ==
    /\ last.op = "getAttachSummary"
    /\ attachState = Detached
    /\ Len(last.delivered) = 2
    /\ Cardinality(last.delivered[1]) = 2
    /\ Cardinality(last.delivered[2]) = 1
    /\ Cardinality(notBoundContexts) = 1

=============================================================================
